---- MODULE Spec2Model ----
(***************************************************************************)
(* A model of the dialogue controller of the AI code system:               *)
(*   reasoner.py   Reasoner  (path extraction, path selection, analyze)    *)
(*   augment.py    Augment.send_to_reasoner (the question/answer loop)     *)
(* Python strings are TLA+ strings, handled character by character with    *)
(* Len, SubSeq and \o.  Optional values (None or a value) are sequences    *)
(* of length 0 or 1.                                                       *)
(***************************************************************************)
EXTENDS Integers, Sequences, FiniteSets

(***************************************************************************)
(* State                                                                   *)
(***************************************************************************)

VARIABLES
    dirs,                        \* the directories that exist (the filesystem)
    current_project_path,        \* Reasoner.current_project_path (<< >> is None)
    ambiguous_paths,             \* Reasoner.ambiguous_paths
    waiting_for_path_selection,  \* Reasoner.waiting_for_path_selection
    original_request,            \* Reasoner.original_request
    project_manager,             \* base_path of Reasoner.project_manager (<< >> is None)
    user_input,                  \* the argument of the last call of analyze
    path_result,                 \* what handle_path_selection returned in the last call (<< >>: not called)
    response,                    \* what the last call of analyze returned (<< >>: it raised)
    calls,                       \* the scans and completion-service calls of the last call, in order
    decision,                    \* the reasoning service's reply in the last call, stripped ("": none)
    report,                      \* the fields extracted in the last call (<< >>: none)
    scan_results,                \* what run_scan returned in the last call (<< >>: not run, or it raised)
    language_specific_results,   \* analyze's language_specific_results in the last call (<< >>: not reached)
    pc,                          \* where Augment is: idle, call, ask, done or raised
    user_request,                \* send_to_reasoner's user_request
    user_answer,                 \* send_to_reasoner's user_answer
    answers,                     \* how many answers the user has given
    returned,                    \* what send_to_reasoner returned (<< >>: nothing yet)
    scan_call,                   \* the run_scan or run_audit call examined, with the strategies it invoked (<< >>: none yet)
    scan_return,                 \* what that call returned (<< >>: nothing, or it raised)
    extract_call,                \* the extract_path call examined (<< >>: none yet)
    dedup_call,                  \* the deduplicate_recommendations call examined (<< >>: none yet)
    fix_call                     \* the generate_requirements_fix call examined (<< >>: none yet)

reasoner_vars == <<current_project_path, ambiguous_paths, waiting_for_path_selection,
                   original_request, project_manager>>

turn_vars == <<user_input, path_result, response, calls, decision, report, scan_results,
              language_specific_results>>

augment_vars == <<pc, user_request, user_answer, answers, returned>>

\* the calls of single methods
unit_vars == <<scan_call, scan_return, extract_call, dedup_call, fix_call>>

vars == <<dirs, reasoner_vars, turn_vars, augment_vars, unit_vars>>

(***************************************************************************)
(* Python string primitives                                                *)
(***************************************************************************)

\* str.isspace for one character (the characters str.strip, str.split and \s act on)
WhiteSpace == {" ", "\n", "\t", "\r"}

\* s[i-1] in Python (1-based here)
CharAt(s, i) == SubSeq(s, i, i)

\* s.startswith(p, i-1)
StartsWithAt(s, p, i) ==
    /\ i >= 1
    /\ i + Len(p) - 1 <= Len(s)
    /\ SubSeq(s, i, i + Len(p) - 1) = p

\* s.startswith(p)
StartsWith(s, p) == StartsWithAt(s, p, 1)

\* s.find(p, from-1) + 1: the least index >= from where p occurs, 0 when none
RECURSIVE Find(_, _, _)
Find(s, p, from) ==
    IF from + Len(p) - 1 > Len(s) THEN 0
    ELSE IF StartsWithAt(s, p, from) THEN from
    ELSE Find(s, p, from + 1)

\* p in s
Contains(s, p) == Find(s, p, 1) # 0

\* s.lstrip()
RECURSIVE LStrip(_)
LStrip(s) ==
    IF Len(s) > 0 /\ CharAt(s, 1) \in WhiteSpace
    THEN LStrip(SubSeq(s, 2, Len(s)))
    ELSE s

\* s.rstrip()
RECURSIVE RStrip(_)
RStrip(s) ==
    IF Len(s) > 0 /\ CharAt(s, Len(s)) \in WhiteSpace
    THEN RStrip(SubSeq(s, 1, Len(s) - 1))
    ELSE s

\* s.strip()
Strip(s) == RStrip(LStrip(s))

UpperLetters == "ABCDEFGHIJKLMNOPQRSTUVWXYZ"
LowerLetters == "abcdefghijklmnopqrstuvwxyz"

\* c.lower() for the upper-case letters
LowerOf == [c \in {CharAt(UpperLetters, k) : k \in 1..Len(UpperLetters)} |->
               CharAt(LowerLetters, Find(UpperLetters, c, 1))]

\* c.lower() for one character
LowerChar(c) == IF c \in DOMAIN LowerOf THEN LowerOf[c] ELSE c

\* s.lower()
RECURSIVE Lower(_)
Lower(s) ==
    IF Len(s) = 0 THEN s
    ELSE LowerChar(CharAt(s, 1)) \o Lower(SubSeq(s, 2, Len(s)))

\* the last index e >= i-1 such that no character of s[i..e] is in stops
\* (a greedy [^...]* starting at i)
RECURSIVE SpanEnd(_, _, _)
SpanEnd(s, i, stops) ==
    IF i > Len(s) \/ CharAt(s, i) \in stops THEN i - 1
    ELSE SpanEnd(s, i + 1, stops)

\* s.split(): the maximal runs of non-whitespace characters, in order
RECURSIVE Split(_)
Split(s) ==
    LET t == LStrip(s)
        e == SpanEnd(t, 1, WhiteSpace)
    IN  IF Len(t) = 0 THEN << >>
        ELSE <<SubSeq(t, 1, e)>> \o Split(SubSeq(t, e + 1, Len(t)))

\* s.replace(old, ""): every non-overlapping occurrence of old removed, left to right
RECURSIVE Remove(_, _)
Remove(s, old) ==
    LET k == Find(s, old, 1)
    IN  IF k = 0 THEN s
        ELSE SubSeq(s, 1, k - 1) \o Remove(SubSeq(s, k + Len(old), Len(s)), old)

\* s.split(sep) for a one-character separator
RECURSIVE SplitOn(_, _)
SplitOn(s, sep) ==
    LET k == Find(s, sep, 1)
    IN  IF k = 0 THEN <<s>>
        ELSE <<SubSeq(s, 1, k - 1)>> \o SplitOn(SubSeq(s, k + 1, Len(s)), sep)

\* sep.join(parts)
RECURSIVE Join(_, _)
Join(parts, sep) ==
    IF Len(parts) = 0 THEN ""
    ELSE IF Len(parts) = 1 THEN parts[1]
    ELSE parts[1] \o sep \o Join(Tail(parts), sep)

DecimalDigits == "0123456789"

IsDigit(c) == Len(c) = 1 /\ Contains(DecimalDigits, c)

\* the value of a non-empty run of decimal digits
RECURSIVE DigitsValue(_)
DigitsValue(d) ==
    IF Len(d) = 0 THEN 0
    ELSE 10 * DigitsValue(SubSeq(d, 1, Len(d) - 1))
         + (Find(DecimalDigits, CharAt(d, Len(d)), 1) - 1)

\* int(s): <<n>> when s is an optionally signed run of digits (single
\* underscores allowed between digits) with optional surrounding whitespace,
\* << >> when int(s) raises ValueError
ParseInt(s) ==
    LET t      == Strip(s)
        signed == Len(t) > 0 /\ CharAt(t, 1) \in {"+", "-"}
        d      == IF signed THEN SubSeq(t, 2, Len(t)) ELSE t
        wellformed ==
            /\ Len(d) > 0
            /\ IsDigit(CharAt(d, 1))
            /\ IsDigit(CharAt(d, Len(d)))
            /\ \A i \in 1..Len(d) : IsDigit(CharAt(d, i)) \/ CharAt(d, i) = "_"
            /\ ~Contains(d, "__")
    IN  IF wellformed
        THEN IF signed /\ CharAt(t, 1) = "-" THEN <<0 - DigitsValue(Remove(d, "_"))>>
             ELSE <<DigitsValue(Remove(d, "_"))>>
        ELSE << >>

(***************************************************************************)
(* The filesystem the controller looks at (os.path, POSIX flavour)         *)
(***************************************************************************)

\* os.getcwd()
Cwd == "/w"

\* os.path.join(a, b)
PathJoin(a, b) ==
    IF StartsWith(b, "/") THEN b
    ELSE IF a = "" \/ CharAt(a, Len(a)) = "/" THEN a \o b
    ELSE a \o "/" \o b

\* the component stack of os.path.normpath for an absolute path
RECURSIVE NormComps(_, _)
NormComps(comps, acc) ==
    IF Len(comps) = 0 THEN acc
    ELSE LET c == Head(comps)
         IN  IF c \in {"", "."} THEN NormComps(Tail(comps), acc)
             ELSE IF c # ".." THEN NormComps(Tail(comps), Append(acc, c))
             ELSE IF Len(acc) > 0
                  THEN NormComps(Tail(comps), SubSeq(acc, 1, Len(acc) - 1))
                  ELSE NormComps(Tail(comps), acc)

\* os.path.abspath(p) = normpath(join(getcwd(), p))
AbsPath(p) == "/" \o Join(NormComps(SplitOn(PathJoin(Cwd, p), "/"), << >>), "/")

\* os.path.exists(p) and os.path.isdir(p), in a filesystem whose directories are ds
IsDir(p, ds) == p # "" /\ AbsPath(p) \in ds

(***************************************************************************)
(* Reasoner.extract_path                                                   *)
(***************************************************************************)

IsLetter(c) == Len(c) = 1 /\ (Contains(UpperLetters, c) \/ Contains(LowerLetters, c))

\* the class [\\s] of the keyword patterns, as the regex engine reads the raw
\* string: a backslash or the letter s (and not a whitespace character)
BackslashOrS == {"\\", "s"}

\* r'\/[^\s]*\/[^\s]*' tried at position i: the end of the match, 0 when none
UnixMatchEnd(s, i) ==
    LET e == SpanEnd(s, i + 1, WhiteSpace)
    IN  IF CharAt(s, i) = "/" /\ Contains(SubSeq(s, i + 1, e), "/") THEN e ELSE 0

\* r'[A-Za-z]:\\[^\\s]*' tried at position i
WindowsMatchEnd(s, i) ==
    IF /\ i + 2 <= Len(s)
       /\ IsLetter(CharAt(s, i))
       /\ CharAt(s, i + 1) = ":"
       /\ CharAt(s, i + 2) = "\\"
    THEN SpanEnd(s, i + 3, BackslashOrS)
    ELSE 0

\* r'<keyword>[\\s][^\\s]*' tried at position i
KeywordMatchEnd(s, i, keyword) ==
    IF /\ StartsWithAt(s, keyword, i)
       /\ i + Len(keyword) <= Len(s)
       /\ CharAt(s, i + Len(keyword)) \in BackslashOrS
    THEN SpanEnd(s, i + Len(keyword) + 1, BackslashOrS)
    ELSE 0

\* path_patterns, in the order of the list
PatternMatchEnd(s, i, n) ==
    CASE n = 1 -> UnixMatchEnd(s, i)
      [] n = 2 -> WindowsMatchEnd(s, i)
      [] n = 3 -> KeywordMatchEnd(s, i, "project")
      [] n = 4 -> KeywordMatchEnd(s, i, "directory")
      [] n = 5 -> KeywordMatchEnd(s, i, "path")

NumPatterns == 5

\* re.search(path_patterns[n-1], s) from position i on: <<match.group(0)>> or << >>
RECURSIVE ReSearch(_, _, _)
ReSearch(s, n, i) ==
    IF i > Len(s) THEN << >>
    ELSE LET e == PatternMatchEnd(s, i, n)
         IN  IF e # 0 THEN <<SubSeq(s, i, e)>> ELSE ReSearch(s, n, i + 1)

\* the clean-up of a matched path
CleanPath(path) == Remove(Remove(Remove(path, "project "), "directory "), "path ")

\* the loop over path_patterns from pattern n on: <<cleaned first match>> or << >>
RECURSIVE PatternLoop(_, _)
PatternLoop(text, n) ==
    IF n > NumPatterns THEN << >>
    ELSE LET match == ReSearch(text, n, 1)
         IN  IF match # << >> THEN <<CleanPath(match[1])>> ELSE PatternLoop(text, n + 1)

\* the words the token scan skips
SkipWords == {"analyze", "scan", "review", "check", "project", "directory",
              "path", "for", "the", "a", "an", "security", "issues",
              "1", "2", "3", "4", "5"}

\* what one word adds to potential_paths
WordPaths(word, ds) ==
    IF Lower(word) \in SkipWords THEN {}
    ELSE (IF IsDir(word, ds) THEN {AbsPath(word)} ELSE {})
         \cup (IF IsDir(PathJoin(Cwd, word), ds) THEN {AbsPath(PathJoin(Cwd, word))} ELSE {})

\* the set potential_paths after the loop over user_input.split()
PotentialPaths(text, ds) ==
    LET words == Split(text)
    IN  UNION {WordPaths(words[k], ds) : k \in 1..Len(words)}

(***************************************************************************)
(* The report extraction of Reasoner.analyze (the four re.search calls)    *)
(***************************************************************************)

\* the first index >= i whose character is not whitespace (a greedy \s* from i)
RECURSIVE SkipSpace(_, _)
SkipSpace(s, i) ==
    IF i <= Len(s) /\ CharAt(s, i) \in WhiteSpace THEN SkipSpace(s, i + 1) ELSE i

\* a greedy (.*) in place of the lazy (.*?): the last index where stop begins
RECURSIVE LazyEndGreedy(_, _, _)
LazyEndGreedy(s, i, stop) ==
    IF i > Len(s) THEN i
    ELSE IF StartsWithAt(s, stop, i) /\ LazyEndGreedy(s, i + 1, stop) > Len(s) THEN i
    ELSE LazyEndGreedy(s, i + 1, stop)

\* the lazy (.*?) from i with the lookahead (?=stop|\Z): the first index >= i
\* where stop begins, Len(s)+1 when it begins nowhere
RECURSIVE LazyEnd(_, _, _)
LazyEnd(s, i, stop) ==
    IF i > Len(s) THEN i
    ELSE IF StartsWithAt(s, stop, i) THEN i
    ELSE LazyEnd(s, i + 1, stop)

\* re.search(label \s*(.*?)(?=stop|\Z), decision, re.DOTALL): <<group(1)>>, or
\* << >> when there is no match
LabelledMatch(content, label, stop) ==
    LET k == Find(content, label, 1)
        b == SkipSpace(content, k + Len(label))
    IN  IF k = 0 THEN << >>
        ELSE <<SubSeq(content, b, LazyEnd(content, b, stop) - 1)>>

assessment_match(content) == LabelledMatch(content, "ASSESSMENT:", "RISK_LEVEL:")

risk_match(content) == LabelledMatch(content, "RISK_LEVEL:", "RECOMMENDATIONS:")

recommendations_match(content) == LabelledMatch(content, "RECOMMENDATIONS:", "QUESTIONS:")

\* re.search(r"QUESTIONS:\s*(.*)$", content, re.DOTALL)
questions_match(content) ==
    LET k == Find(content, "QUESTIONS:", 1)
        b == SkipSpace(content, k + Len("QUESTIONS:"))
    IN  IF k = 0 THEN << >>
        ELSE <<SubSeq(content, b, Len(content))>>

\* match.group(1).strip() if match else default
GroupOrDefault(match, default) == IF match # << >> THEN Strip(match[1]) ELSE default

\* the four fields with the recommendations of the previous report kept in
\* front of the new ones (a field that accumulates across calls)
ExtractReportAccumulates(content) ==
    [assessment      |-> GroupOrDefault(assessment_match(content), "No assessment provided"),
     risk_level      |-> GroupOrDefault(risk_match(content), "Unknown"),
     recommendations |-> (IF report # << >> THEN report[1].fields.recommendations \o "\n" ELSE "")
                         \o GroupOrDefault(recommendations_match(content), "No recommendations"),
     questions       |-> GroupOrDefault(questions_match(content), "null")]

\* the four fields analyze reads out of the reasoning service's reply
ExtractReport(content) ==
    [assessment      |-> GroupOrDefault(assessment_match(content), "No assessment provided"),
     risk_level      |-> GroupOrDefault(risk_match(content), "Unknown"),
     recommendations |-> GroupOrDefault(recommendations_match(content), "No recommendations"),
     questions       |-> GroupOrDefault(questions_match(content), "null")]

\* the guard of generate_fix_code without "not recommendations": the call is
\* made for empty recommendations too
FixCodeCallsUnlessDefault(recommendations) ==
    recommendations # "No recommendations"

\* whether generate_fix_code reaches its completion-service call
FixCodeCalls(recommendations) ==
    recommendations # "No recommendations" /\ recommendations # ""

\* generate_fix_code(recommendations), reply being what the completion service
\* does when called (<<content>>, or << >> when the call raises): <<code>> or << >> (None)
generate_fix_code(recommendations, reply) ==
    IF ~FixCodeCalls(recommendations) THEN << >>
    ELSE IF reply = << >> THEN << >>
    ELSE <<Strip(reply[1])>>

\* Python truthiness of an optional string
Truthy(opt) == opt # << >> /\ opt[1] # ""

\* final_response of a project-analysis turn
FinalResponse(r, fix_code) ==
    "\nSECURITY ASSESSMENT REPORT\n==========================\nRisk Level: "
    \o r.risk_level \o "\n\nAssessment:\n" \o r.assessment
    \o "\n\nRecommendations:\n" \o r.recommendations \o "\n"
    \o (IF Truthy(fix_code)
        THEN "\n\nAUTOMATED FIXES:\n================\nHere's code to implement the recommendations:\n\n"
             \o fix_code[1] \o "\n"
        ELSE "")

\* the return with "if questions:" in place of "if questions != "null":"
ProjectResponseIfQuestions(r, fix_code) ==
    IF r.questions # ""
    THEN "QUESTION: " \o r.questions \o "\n\n" \o FinalResponse(r, fix_code)
    ELSE FinalResponse(r, fix_code)

\* what the project-analysis turn returns
ProjectResponse(r, fix_code) ==
    IF r.questions # "null"
    THEN "QUESTION: " \o r.questions \o "\n\n" \o FinalResponse(r, fix_code)
    ELSE FinalResponse(r, fix_code)

(***************************************************************************)
(* The classification of a request                                        *)
(***************************************************************************)

project_keywords == <<"project", "directory", "file", "scan", "audit", "fix",
                      "vulnerability", "review", "analyze", "check", "security">>

\* any(keyword in user_input.lower() for keyword in project_keywords)
HasProjectKeyword(text) ==
    LET lowered == Lower(text)
    IN  \E k \in 1..Len(project_keywords) : Contains(lowered, project_keywords[k])

(***************************************************************************)
(* The environment: the filesystem, the user and the completion service    *)
(***************************************************************************)

\* directories that exist throughout
FixedDirs == {"/", "/w", "/w/app", "/w/lib", "/tmp", "/tmp/demo"}

\* directories that come and go while the program runs
MutableDirs == {"/w/api"}

\* the states the filesystem can be in
FsStates == {FixedDirs \cup m : m \in SUBSET MutableDirs}

\* what a caller of analyze passes
Utterances ==
    {"scan app api", "review app lib api", "scan /tmp/demo for issues",
     "scan /tmp/nodir", "fix the vulnerability", "write a sorting function", "app",
     "0", "1", "2", "3", "-1", "/w/lib", "print a prefix", "scan app /tmp/nodir"}

\* what the user of Augment types first
Requests ==
    {"scan app api", "scan /tmp/demo for issues", "fix the vulnerability",
     "write a sorting function"}

\* what the user of Augment answers to a question
Answers == {"1", "/w/app", "in python", ""}

\* further texts extract_path is examined on
PathTexts ==
    {"scan /w/app/", "scan app /tmp/nodir", "check the paths in app", "check the project app",
     "scan App", "review the project", "audit lib lib", "scan security", "scan app/../lib",
     "scan /w/app /w/lib", "review app ./app lib", "open project my-app"}

\* how many answers the user gives at most
MaxAnswers == 2

\* the requests send_to_reasoner can build from the texts of S with n more answers
RECURSIVE Grow(_, _)
Grow(S, n) ==
    IF n = 0 THEN S
    ELSE S \cup Grow({r \o " " \o a : r \in S, a \in Answers}, n - 1)

\* every text analyze is called with
Texts == Utterances \cup Grow(Requests, MaxAnswers) \cup PathTexts

\* what a completion-service call does: << >> when it raises, <<content>> otherwise
AssessOutcomes ==
    {<< >>,
     <<"ASSESSMENT: ok\nRISK_LEVEL: Low\nRECOMMENDATIONS: patch X\nQUESTIONS: null">>,
     <<"ASSESSMENT: weak\nRISK_LEVEL: High\nRECOMMENDATIONS: pin versions\nQUESTIONS: Which database?\n">>,
     <<"ASSESSMENT: ok\nRECOMMENDATIONS: patch X\nQUESTIONS: null">>,
     <<"The project is at risk.\nRISK_LEVEL: Critical\nRECOMMENDATIONS: No recommendations">>,
     <<"ASSESSMENT: ok\nRISK_LEVEL: Low\nRECOMMENDATIONS:\nQUESTIONS: null">>}

FixOutcomes == {<< >>, <<"">>, <<" \n">>, <<"pip install -U x\n">>}

ClassifyOutcomes ==
    {<< >>, <<"CODE_GENERATION_APPROVED">>, <<" CODE_GENERATION_APPROVED\n">>,
     <<"CODE_GENERATION_APPROVED.">>, <<" Which language?\n">>}

OptimizeOutcomes == {<< >>, <<"Write a Python function that sorts a list.">>}

GenerateOutcomes == {<< >>, <<"def f(): pass">>, <<"QUESTION: what?">>, <<"# QUESTION: what?">>}

(***************************************************************************)
(* The pure functions above, evaluated once for every text of the model    *)
(***************************************************************************)

PatternLoopTable == [t \in Texts |-> PatternLoop(t, 1)]

PotentialPathsTable == [ds \in FsStates |-> [t \in Texts |-> PotentialPaths(t, ds)]]

HasProjectKeywordTable == [t \in Texts |-> HasProjectKeyword(t)]

ParseIntTable == [t \in Texts |-> ParseInt(t)]

\* every string the controller asks the filesystem about
AskedPaths ==
    Texts \cup UNION FsStates
    \cup {PatternLoopTable[t][1] : t \in {u \in Texts : PatternLoopTable[u] # << >>}}

IsDirTable == [ds \in FsStates |-> [p \in AskedPaths |-> IsDir(p, ds)]]

ExtractReportTable ==
    [c \in {o[1] : o \in AssessOutcomes \ {<< >>}} |-> ExtractReport(Strip(c))]

(***************************************************************************)
(* Reasoner.extract_path                                                   *)
(***************************************************************************)

\* the lists list(S) can be: the elements of S, each once, in any order
ListsOf(S) ==
    {l \in [1..Cardinality(S) -> S] : \A i, j \in 1..Cardinality(S) : l[i] = l[j] => i = j}

\* the lists list(potential_paths) can be when extract_path reaches the token scan
PotentialLists(text, ds) ==
    IF PatternLoopTable[text] # << >> THEN {<< >>} ELSE ListsOf(PotentialPathsTable[ds][text])

\* extract_path(user_input), where potential_list is list(potential_paths):
\* ret is the returned value (<< >> for None), ambiguous_paths the value of
\* self.ambiguous_paths afterwards (old: its value before)
extract_path(text, potential_list, old) ==
    IF PatternLoopTable[text] # << >>
    THEN [ret |-> PatternLoopTable[text], ambiguous_paths |-> old]
    ELSE IF Len(potential_list) = 0 THEN [ret |-> << >>, ambiguous_paths |-> old]
    ELSE IF Len(potential_list) = 1
         THEN [ret |-> <<potential_list[1]>>, ambiguous_paths |-> old]
    ELSE [ret |-> <<"AMBIGUOUS">>, ambiguous_paths |-> potential_list]

(***************************************************************************)
(* Reasoner.handle_path_selection                                          *)
(***************************************************************************)

InvalidSelectionQuestion == "QUESTION: Invalid selection. Please choose a number from the list."

InvalidPathQuestion == "QUESTION: Please enter a valid number from the list or provide a full path."

\* handle_path_selection without "- 1": the typed number used as a 0-based index
HandlePathSelectionZeroBased(text, paths, waiting, ds) ==
    IF ParseIntTable[text] # << >>
    THEN LET selection == ParseIntTable[text][1]
         IN  IF 0 <= selection /\ selection < Len(paths)
             THEN [ret |-> paths[selection + 1],
                   ambiguous_paths |-> << >>,
                   waiting_for_path_selection |-> FALSE]
             ELSE [ret |-> InvalidSelectionQuestion,
                   ambiguous_paths |-> paths,
                   waiting_for_path_selection |-> waiting]
    ELSE IF IsDirTable[ds][text]
         THEN [ret |-> text,
               ambiguous_paths |-> << >>,
               waiting_for_path_selection |-> FALSE]
         ELSE [ret |-> InvalidPathQuestion,
               ambiguous_paths |-> paths,
               waiting_for_path_selection |-> waiting]

\* handle_path_selection that forgets to clear ambiguous_paths on a selection
HandlePathSelectionKeepsList(text, paths, waiting, ds) ==
    IF ParseIntTable[text] # << >>
    THEN LET selection == ParseIntTable[text][1] - 1
         IN  IF 0 <= selection /\ selection < Len(paths)
             THEN [ret |-> paths[selection + 1],
                   ambiguous_paths |-> paths,
                   waiting_for_path_selection |-> FALSE]
             ELSE [ret |-> InvalidSelectionQuestion,
                   ambiguous_paths |-> paths,
                   waiting_for_path_selection |-> waiting]
    ELSE IF IsDirTable[ds][text]
         THEN [ret |-> text,
               ambiguous_paths |-> paths,
               waiting_for_path_selection |-> FALSE]
         ELSE [ret |-> InvalidPathQuestion,
               ambiguous_paths |-> paths,
               waiting_for_path_selection |-> waiting]

\* handle_path_selection that gives up the menu on an invalid selection
HandlePathSelectionDropsMenu(text, paths, waiting, ds) ==
    IF ParseIntTable[text] # << >>
    THEN LET selection == ParseIntTable[text][1] - 1
         IN  IF 0 <= selection /\ selection < Len(paths)
             THEN [ret |-> paths[selection + 1],
                   ambiguous_paths |-> << >>,
                   waiting_for_path_selection |-> FALSE]
             ELSE [ret |-> InvalidSelectionQuestion,
                   ambiguous_paths |-> << >>,
                   waiting_for_path_selection |-> FALSE]
    ELSE IF IsDirTable[ds][text]
         THEN [ret |-> text,
               ambiguous_paths |-> << >>,
               waiting_for_path_selection |-> FALSE]
         ELSE [ret |-> InvalidPathQuestion,
               ambiguous_paths |-> << >>,
               waiting_for_path_selection |-> FALSE]

\* handle_path_selection that clears the list on a selection but forgets to
\* reset waiting_for_path_selection
HandlePathSelectionStaysWaiting(text, paths, waiting, ds) ==
    IF ParseIntTable[text] # << >>
    THEN LET selection == ParseIntTable[text][1] - 1
         IN  IF 0 <= selection /\ selection < Len(paths)
             THEN [ret |-> paths[selection + 1],
                   ambiguous_paths |-> << >>,
                   waiting_for_path_selection |-> waiting]
             ELSE [ret |-> InvalidSelectionQuestion,
                   ambiguous_paths |-> paths,
                   waiting_for_path_selection |-> waiting]
    ELSE IF IsDirTable[ds][text]
         THEN [ret |-> text,
               ambiguous_paths |-> << >>,
               waiting_for_path_selection |-> waiting]
         ELSE [ret |-> InvalidPathQuestion,
               ambiguous_paths |-> paths,
               waiting_for_path_selection |-> waiting]

\* handle_path_selection that takes any text that is no number for a path,
\* without asking the filesystem
HandlePathSelectionTrustsPath(text, paths, waiting, ds) ==
    IF ParseIntTable[text] # << >>
    THEN LET selection == ParseIntTable[text][1] - 1
         IN  IF 0 <= selection /\ selection < Len(paths)
             THEN [ret |-> paths[selection + 1],
                   ambiguous_paths |-> << >>,
                   waiting_for_path_selection |-> FALSE]
             ELSE [ret |-> InvalidSelectionQuestion,
                   ambiguous_paths |-> paths,
                   waiting_for_path_selection |-> waiting]
    ELSE [ret |-> text,
          ambiguous_paths |-> << >>,
          waiting_for_path_selection |-> FALSE]

\* handle_path_selection(user_input) with self.ambiguous_paths = paths and
\* self.waiting_for_path_selection = waiting: the returned string and the two
\* fields afterwards
handle_path_selection(text, paths, waiting, ds) ==
    IF ParseIntTable[text] # << >>
    THEN LET selection == ParseIntTable[text][1] - 1
         IN  IF 0 <= selection /\ selection < Len(paths)
             THEN [ret |-> paths[selection + 1],
                   ambiguous_paths |-> << >>,
                   waiting_for_path_selection |-> FALSE]
             ELSE [ret |-> InvalidSelectionQuestion,
                   ambiguous_paths |-> paths,
                   waiting_for_path_selection |-> waiting]
    ELSE IF IsDirTable[ds][text]
         THEN [ret |-> text,
               ambiguous_paths |-> << >>,
               waiting_for_path_selection |-> FALSE]
         ELSE [ret |-> InvalidPathQuestion,
               ambiguous_paths |-> paths,
               waiting_for_path_selection |-> waiting]

(***************************************************************************)
(* Reasoner.deduplicate_recommendations                                    *)
(***************************************************************************)

\* the loop over lines from line k on, seen being the set of stripped lines
\* already kept: the list unique_lines
RECURSIVE UniqueLines(_, _, _)
UniqueLines(lines, k, seen) ==
    IF k > Len(lines) THEN << >>
    ELSE LET clean_line == Strip(lines[k])
         IN  IF clean_line # "" /\ clean_line \notin seen
             THEN <<lines[k]>> \o UniqueLines(lines, k + 1, seen \cup {clean_line})
             ELSE UniqueLines(lines, k + 1, seen)

\* deduplicate_recommendations(text)
deduplicate_recommendations(text) ==
    IF text = "" THEN text
    ELSE Join(UniqueLines(SplitOn(text, "\n"), 1, {}), "\n")

(***************************************************************************)
(* ProjectManager: the external tools and the fallback chains              *)
(* A Python object is [type |-> "dict", dict |-> f] (f a function from     *)
(* keys to values), [type |-> "list", len |-> n] or [type |-> "none"].     *)
(***************************************************************************)

\* the dict with no keys
EmptyDict == [k \in {} |-> ""]

PyDict(f) == [type |-> "dict", dict |-> f]

PyList(n) == [type |-> "list", len |-> n]

PyNone == [type |-> "none"]

\* bool(obj)
PyTruthy(obj) ==
    CASE obj.type = "dict" -> DOMAIN obj.dict # {}
      [] obj.type = "list" -> obj.len > 0
      [] obj.type = "none" -> FALSE

\* what a tool prints on stdout when it exits with 0
ToolOutputs ==
    {"{\"results\": [], \"errors\": []}", "{}", "[{\"check_id\": \"x\"}]", "null",
     "Usage: scan [OPTIONS]"}

\* json.loads(stdout) for the outputs above: <<object>>, or << >> when it
\* raises JSONDecodeError
JsonLoads(stdout) ==
    CASE stdout = "{\"results\": [], \"errors\": []}" ->
             <<PyDict([results |-> "[]", errors |-> "[]"])>>
      [] stdout = "{}" -> <<PyDict(EmptyDict)>>
      [] stdout = "[{\"check_id\": \"x\"}]" -> <<PyList(1)>>
      [] stdout = "null" -> <<PyNone>>
      [] OTHER -> << >>

\* what subprocess.run does: exc is the message of the exception it raises
\* ("" when it returns), the other fields are those of the CompletedProcess
ToolRuns ==
    {[exc |-> "[Errno 2] No such file or directory", returncode |-> 0, stdout |-> "", stderr |-> ""],
     [exc |-> "Command timed out after 120 seconds", returncode |-> 0, stdout |-> "", stderr |-> ""],
     [exc |-> "", returncode |-> 1, stdout |-> "", stderr |-> "fatal: bad config"],
     [exc |-> "", returncode |-> 2, stdout |-> "", stderr |-> ""]}
    \cup {[exc |-> "", returncode |-> 0, stdout |-> out, stderr |-> ""] : out \in ToolOutputs}

\* the three runs of one fallback chain, in the order of its strategies
ToolRunSeqs == [1..3 -> ToolRuns]

\* one strategy (_run_semgrep_basic, ..., _run_osv_audit_lockfile) given what
\* its subprocess.run does; with_returncode: the strategy reports the code
RunStrategy(run, with_returncode) ==
    IF run.exc # "" THEN PyDict([error |-> run.exc])
    ELSE IF run.returncode = 0
    THEN IF JsonLoads(run.stdout) = << >>
         THEN PyDict([error |-> "Expecting value: line 1 column 1 (char 0)"])
         ELSE JsonLoads(run.stdout)[1]
    ELSE IF with_returncode
    THEN PyDict([error |-> run.stderr, returncode |-> run.returncode])
    ELSE PyDict([error |-> run.stderr])

\* the strategy loop from strategy i on: <<result>>, or << >> when
\* result.get raises AttributeError (result is no dict)
RECURSIVE FallbackFrom(_, _, _)
FallbackFrom(runs, i, failure) ==
    IF i > Len(runs) THEN <<failure>>
    ELSE LET result == RunStrategy(runs[i], i = 1)
         IN  IF ~PyTruthy(result) THEN FallbackFrom(runs, i + 1, failure)
             ELSE IF result.type # "dict" THEN << >>
             ELSE IF "error" \in DOMAIN result.dict /\ result.dict.error # ""
             THEN FallbackFrom(runs, i + 1, failure)
             ELSE <<result>>

\* the strategies the loop invokes from strategy i on, in the order of their
\* invocation (the loop ends at a return or at the AttributeError)
RECURSIVE InvokedFrom(_, _)
InvokedFrom(runs, i) ==
    IF i > Len(runs) THEN << >>
    ELSE LET result == RunStrategy(runs[i], i = 1)
         IN  IF ~PyTruthy(result) THEN <<i>> \o InvokedFrom(runs, i + 1)
             ELSE IF result.type # "dict" THEN <<i>>
             ELSE IF "error" \in DOMAIN result.dict /\ result.dict.error # ""
             THEN <<i>> \o InvokedFrom(runs, i + 1)
             ELSE <<i>>

SemgrepFailure ==
    PyDict([error |-> "All Semgrep scanning strategies failed",
            suggested_fix |-> "Check Semgrep installation: pip install semgrep"])

OsvFailure ==
    PyDict([error |-> "All OSV-Scanner strategies failed",
            suggested_fix |-> "Install OSV-Scanner: winget install Google.OSVScanner"])

\* _run_semgrep_with_fallback
run_semgrep_with_fallback(runs) == FallbackFrom(runs, 1, SemgrepFailure)

\* _run_osv_audit_with_fallback
run_osv_audit_with_fallback(runs) == FallbackFrom(runs, 1, OsvFailure)

(***************************************************************************)
(* Reasoner.run_language_specific_scans                                    *)
(***************************************************************************)

\* self.security_tools
security_tools ==
    [language \in {"Python", "JavaScript", "Java", "Go", "Ruby", "PHP", "C#", "C/C++"} |->
        CASE language = "Python"     -> <<"bandit", "safety", "pylint">>
          [] language = "JavaScript" -> <<"npm audit", "eslint", "snyk">>
          [] language = "Java"       -> <<"spotbugs", "dependency-check">>
          [] language = "Go"         -> <<"gosec", "staticcheck">>
          [] language = "Ruby"       -> <<"brakeman", "bundler-audit">>
          [] language = "PHP"        -> <<"phpcs", "phpmd">>
          [] language = "C#"         -> <<"security-code-scan">>
          [] language = "C/C++"      -> <<"cppcheck", "flawfinder">>]

\* the (language, tool) pairs run_language_specific_scans goes through
LanguageTools(languages) ==
    UNION {{<<language, security_tools[language][k]>> :
                k \in 1..Len(security_tools[language])} :
            language \in languages \cap DOMAIN security_tools}

\* the key f"{language}_{tool}"
ResultKey(pair) == pair[1] \o "_" \o pair[2]

\* run_language_specific_scans(languages): the dict results
run_language_specific_scans(languages) ==
    [key \in {ResultKey(pair) : pair \in LanguageTools(languages)} |->
        LET pair == CHOOSE q \in LanguageTools(languages) : ResultKey(q) = key
        IN  "Would run " \o pair[2] \o " scan"]

\* language_specific_results of analyze, scanned being what run_scan returned
LanguageSpecificResults(scanned) ==
    IF /\ "languages_detected" \in DOMAIN scanned
       /\ PyTruthy(scanned["languages_detected"])
    THEN run_language_specific_scans(DOMAIN scanned["languages_detected"].dict)
    ELSE EmptyDict

(***************************************************************************)
(* ProjectManager: the probes that read the project directory              *)
(* A project is the sequence of its files in the order os.walk lists them; *)
(* a file is [name, text, fault, mode], fault being the message of the     *)
(* exception open() raises ("" when it opens).                             *)
(***************************************************************************)

language_extensions ==
    [ext \in {".py", ".js", ".ts", ".java", ".cpp", ".c", ".cs", ".php", ".rb", ".go", ".rs",
              ".swift", ".kt", ".html", ".css", ".scss", ".xml", ".json", ".yml", ".yaml"} |->
        CASE ext = ".py" -> "Python"       [] ext = ".js" -> "JavaScript"
          [] ext = ".ts" -> "TypeScript"   [] ext = ".java" -> "Java"
          [] ext = ".cpp" -> "C++"         [] ext = ".c" -> "C"
          [] ext = ".cs" -> "C#"           [] ext = ".php" -> "PHP"
          [] ext = ".rb" -> "Ruby"         [] ext = ".go" -> "Go"
          [] ext = ".rs" -> "Rust"         [] ext = ".swift" -> "Swift"
          [] ext = ".kt" -> "Kotlin"       [] ext = ".html" -> "HTML"
          [] ext = ".css" -> "CSS"         [] ext = ".scss" -> "SCSS"
          [] ext = ".xml" -> "XML"         [] ext = ".json" -> "JSON"
          [] ext = ".yml" -> "YAML"        [] ext = ".yaml" -> "YAML"]

\* the index of the last "." of name that follows a character other than ".",
\* 0 when there is none (the dot os.path.splitext splits at)
RECURSIVE ExtDot(_, _)
ExtDot(name, i) ==
    IF i <= 1 THEN 0
    ELSE IF CharAt(name, i) = "." THEN
         (IF \E j \in 1..(i - 1) : CharAt(name, j) # "." THEN i ELSE 0)
    ELSE ExtDot(name, i - 1)

\* os.path.splitext(name)[1]
SplitExt(name) ==
    LET k == ExtDot(name, Len(name))
    IN  IF k = 0 THEN "" ELSE SubSeq(name, k, Len(name))

\* the files of a project whose extension names a language
LanguageFiles(files) ==
    {k \in 1..Len(files) : SplitExt(files[k].name) \in DOMAIN language_extensions}

\* detect_languages; raised: the message of an exception inside its try ("" for none)
detect_languages(files, raised) ==
    IF raised # "" THEN PyDict([error |-> raised])
    ELSE LET found == {language_extensions[SplitExt(files[k].name)] : k \in LanguageFiles(files)}
         IN  PyDict([languages   |-> [l \in found |->
                                         Cardinality({k \in LanguageFiles(files) :
                                             language_extensions[SplitExt(files[k].name)] = l})],
                     total_files |-> Cardinality(LanguageFiles(files))])

\* structure["files"] for the files from k on: the paths of those not hidden
RECURSIVE SelectNames(_, _, _)
SelectNames(files, base_path, k) ==
    IF k > Len(files) THEN << >>
    ELSE (IF StartsWith(files[k].name, ".") THEN << >>
          ELSE <<PathJoin(base_path, files[k].name)>>)
         \o SelectNames(files, base_path, k + 1)

\* whether get_file_structure skips the root directory base_path
SkipsRoot(base_path) ==
    LET parts == SplitOn(base_path, "/")
    IN  \E k \in 1..Len(parts) :
            StartsWith(parts[k], ".") \/ parts[k] \in {"venv", ".venv", "node_modules"}

\* get_file_structure for a project without subdirectories
get_file_structure(files, base_path, raised) ==
    IF raised # "" THEN PyDict([error |-> raised])
    ELSE PyDict([files       |-> IF SkipsRoot(base_path) THEN << >>
                                 ELSE SelectNames(files, base_path, 1),
                 directories |-> << >>])

important_files ==
    {"main.py", "example.py", "app.py", "index.py", "requirements.txt", "package.json",
     "dockerfile", "docker-compose.yml"}

\* the file of the project called name
FileNamed(files, name) == files[CHOOSE k \in 1..Len(files) : files[k].name = name]

FileNames(files) == {files[k].name : k \in 1..Len(files)}

\* analyze_file_contents: the dict code_content
analyze_file_contents(files) ==
    [name \in important_files \cap FileNames(files) |->
        IF FileNamed(files, name).fault = "" THEN FileNamed(files, name).text
        ELSE "Error reading " \o name \o ": " \o FileNamed(files, name).fault]

framework_indicators ==
    [framework \in {"flask", "django", "fastapi", "express", "react", "vue", "angular"} |->
        CASE framework = "flask"   -> {"from flask", "import Flask", "@app.route", "flask.Flask"}
          [] framework = "django"  -> {"from django", "DJANGO_SETTINGS", "django.db", "django.contrib"}
          [] framework = "fastapi" -> {"from fastapi", "import FastAPI", "fastapi.FastAPI"}
          [] framework = "express" -> {"require(\"express\")", "const express =", "express()"}
          [] framework = "react"   -> {"import React", "react-dom", "JSX", "useState"}
          [] framework = "vue"     -> {"import Vue", "new Vue", "vue-create"}
          [] framework = "angular" -> {"@angular", "import { Component }", "angular.module"}]

\* indicator.lower() for every indicator
LoweredIndicators ==
    [framework \in DOMAIN framework_indicators |->
        {Lower(indicator) : indicator \in framework_indicators[framework]}]

\* the set detected_frameworks of detect_frameworks
detect_frameworks(code_content) ==
    LET lowered == [name \in DOMAIN code_content |-> Lower(code_content[name])]
    IN  {framework \in DOMAIN framework_indicators :
            \E name \in DOMAIN code_content : \E indicator \in LoweredIndicators[framework] :
                Contains(lowered[name], indicator)}

sensitive_files == {".env", "config.json", "secrets.txt", "credentials.json"}

\* what _identify_potential_issues appends for the files from k on
RECURSIVE IssuesFrom(_, _, _)
IssuesFrom(files, base_path, k) ==
    IF k > Len(files) THEN << >>
    ELSE (IF files[k].name \in sensitive_files
          THEN <<"Potential sensitive file: " \o PathJoin(base_path, files[k].name)>>
          ELSE << >>)
         \o (IF files[k].mode % 512 = 511
             THEN <<"World-writable file: " \o PathJoin(base_path, files[k].name)>>
             ELSE << >>)
         \o IssuesFrom(files, base_path, k + 1)

\* _identify_potential_issues
identify_potential_issues(files, base_path, raised) ==
    IF raised # "" THEN <<"Error in issue identification: " \o raised>>
    ELSE IssuesFrom(files, base_path, 1)

(***************************************************************************)
(* ProjectManager.generate_requirements_fix                                *)
(***************************************************************************)

\* version_updates, in the order of the dict
version_updates ==
    <<[pkg |-> "requests", new_version |-> ">=2.31.0"],
      [pkg |-> "flask", new_version |-> ">=2.3.3"],
      [pkg |-> "django", new_version |-> ">=4.2.4"],
      [pkg |-> "numpy", new_version |-> ">=1.24.0"],
      [pkg |-> "setuptools", new_version |-> ">=68.0.0"]>>

\* the entries of version_updates whose pkg followed by == starts the line
PinnedUpdates(line) ==
    {k \in 1..Len(version_updates) : StartsWith(line, version_updates[k].pkg \o "==")}

\* one pass of the loop over the lines: the line that is appended to updated_lines
UpdatedLine(raw_line) ==
    LET line == Strip(raw_line)
    IN  IF line = "" \/ StartsWith(line, "#") THEN line
        ELSE IF PinnedUpdates(line) # {}
        THEN LET k == CHOOSE i \in PinnedUpdates(line) : \A j \in PinnedUpdates(line) : i <= j
             IN  version_updates[k].pkg \o version_updates[k].new_version
        ELSE line

\* generate_requirements_fix(current_content)
generate_requirements_fix(current_content) ==
    IF current_content = ""
    THEN "# No requirements.txt content available for fixing"
    ELSE LET lines == SplitOn(current_content, "\n")
         IN  Join([i \in 1..Len(lines) |-> UpdatedLine(lines[i])], "\n")

(***************************************************************************)
(* ProjectManager.run_scan and ProjectManager.run_audit                    *)
(***************************************************************************)

dependency_file_names ==
    {"requirements.txt", "package.json", "pom.xml", "build.gradle", "go.mod", "Cargo.toml",
     "composer.json", "Gemfile"}

\* f.read(1000)
Read1000(text) == SubSeq(text, 1, IF Len(text) < 1000 THEN Len(text) ELSE 1000)

\* _find_dependency_files: each name mapped to << >> (None) or <<entry>>
find_dependency_files(files) ==
    [name \in dependency_file_names |->
        IF name \notin FileNames(files) THEN << >>
        ELSE IF FileNamed(files, name).fault = ""
        THEN <<[exists |-> TRUE, content |-> Read1000(FileNamed(files, name).text),
                encoding |-> "utf-8"]>>
        ELSE <<[exists |-> TRUE, error |-> FileNamed(files, name).fault]>>]

outdated_indicators == <<"requests==2.25", "flask==1.1", "django==3.1", "numpy==1.19">>

\* the checks appended for the outdated indicators from k on
RECURSIVE OutdatedFrom(_, _)
OutdatedFrom(content, k) ==
    IF k > Len(outdated_indicators) THEN << >>
    ELSE (IF Contains(content, outdated_indicators[k])
          THEN <<"Outdated package detected: " \o outdated_indicators[k]>>
          ELSE << >>)
         \o OutdatedFrom(content, k + 1)

\* _manual_dependency_checks
manual_dependency_checks(files) ==
    IF "requirements.txt" \notin FileNames(files) THEN << >>
    ELSE IF FileNamed(files, "requirements.txt").fault # ""
    THEN <<"Error reading requirements.txt: " \o FileNamed(files, "requirements.txt").fault>>
    ELSE LET content == FileNamed(files, "requirements.txt").text
         IN  (IF ~Contains(content, "==") /\ ~Contains(content, ">=")
              THEN <<"requirements.txt might not have version pinning">>
              ELSE << >>)
             \o OutdatedFrom(content, 1)

\* the probes of run_scan that have a try of their own
WalkProbes == {"languages", "structure", "potential_issues"}

\* the projects the model scans
Projects ==
    {<< >>,
     <<[name |-> "app.py", text |-> "from flask import Flask\n", fault |-> "", mode |-> 420]>>,
     <<[name |-> "requirements.txt", text |-> "flask==1.1\nrequests\n", fault |-> "", mode |-> 511],
       [name |-> ".env", text |-> "KEY=1\n", fault |-> "", mode |-> 384]>>,
     <<[name |-> "requirements.txt", text |-> "", fault |-> "[Errno 13] Permission denied",
        mode |-> 420]>>}

\* the exceptions inside the probes' try blocks: none, or one in one probe
ProbeFaults ==
    {[p \in WalkProbes |-> ""]}
    \cup {[p \in WalkProbes |-> IF p = q THEN "[Errno 5] Input/output error" ELSE ""] :
              q \in WalkProbes}

\* the directory the ProjectManager is made for
ScanBasePath == "/w/app"

\* the slots of run_scan that do not come from semgrep, raised[p] being the
\* message of the exception inside probe p ("" for none).
\* detected_frameworks is the set of the list's elements.
ScanProbes(files, base_path, raised) ==
    [languages           |-> detect_languages(files, raised["languages"]),
     structure           |-> get_file_structure(files, base_path, raised["structure"]),
     file_contents       |-> analyze_file_contents(files),
     potential_issues    |-> identify_potential_issues(files, base_path,
                                                       raised["potential_issues"]),
     detected_frameworks |-> detect_frameworks(analyze_file_contents(files))]

\* the slots of run_audit that do not come from osv-scanner
AuditProbes(files) ==
    [dependency_files |-> find_dependency_files(files),
     manual_checks    |-> manual_dependency_checks(files)]

\* the probes, evaluated once for every project of the model
ScanProbesTable ==
    [files \in Projects |-> [raised \in ProbeFaults |-> ScanProbes(files, ScanBasePath, raised)]]

AuditProbesTable == [files \in Projects |-> AuditProbes(files)]

\* run_scan on the project files at ScanBasePath, runs being what the three
\* semgrep runs do: <<results>>, or << >> when an exception leaves run_scan
run_scan(files, runs, raised) ==
    LET semgrep_scan == run_semgrep_with_fallback(runs)
        probes       == ScanProbesTable[files][raised]
    IN  IF semgrep_scan = << >> THEN << >>
        ELSE <<[languages           |-> probes.languages,
                structure           |-> probes.structure,
                file_contents       |-> probes.file_contents,
                semgrep_scan        |-> semgrep_scan[1],
                potential_issues    |-> probes.potential_issues,
                detected_frameworks |-> probes.detected_frameworks]>>

\* run_audit, runs being what the three osv-scanner runs do: <<results>>, or
\* << >> when an exception leaves run_audit
run_audit(files, runs) ==
    LET osv_scanner == run_osv_audit_with_fallback(runs)
    IN  IF osv_scanner = << >> THEN << >>
        ELSE <<[osv_scanner      |-> osv_scanner[1],
                dependency_files |-> AuditProbesTable[files].dependency_files,
                manual_checks    |-> AuditProbesTable[files].manual_checks]>>

\* the projects the turns of analyze are made on: an empty one and one with
\* a Python file
TurnProjects == {files \in Projects : \A k \in 1..Len(files) : files[k].name = "app.py"}

\* what semgrep does in those turns: it is missing, it prints its findings,
\* or it prints a JSON list
TurnRuns ==
    {[k \in 1..3 |-> run] :
        run \in {r \in ToolRuns :
                    \/ r.exc = "[Errno 2] No such file or directory"
                    \/ r.stdout \in {"{\"results\": [], \"errors\": []}", "[{\"check_id\": \"x\"}]"}}}

\* what run_scan returns in those turns (<< >>: it raises), the project being
\* at ScanBasePath
ScanOutcomes ==
    {run_scan(files, runs, [p \in WalkProbes |-> ""]) : files \in TurnProjects, runs \in TurnRuns}

\* whether run_scan / run_audit can return and whether it can raise
ScanRaises == {run_scan(<< >>, runs, [p \in WalkProbes |-> ""]) = << >> : runs \in ToolRunSeqs}

AuditRaises == {run_audit(<< >>, runs) = << >> : runs \in ToolRunSeqs}

(***************************************************************************)
(* Reasoner.analyze                                                        *)
(***************************************************************************)

\* str(n) for a natural number
RECURSIVE IntStr(_)
IntStr(n) ==
    IF n < 10 THEN CharAt(DecimalDigits, n + 1)
    ELSE IntStr(n \div 10) \o CharAt(DecimalDigits, (n % 10) + 1)

\* is_project_request with the keywords looked for among the words of the
\* lowercased text, in place of the substring test
IsProjectRequestWholeWord(text) ==
    LET words == Split(Lower(text))
    IN  \E k \in 1..Len(project_keywords) : \E w \in 1..Len(words) :
            words[w] = project_keywords[k]

\* is_project_request
is_project_request(text) == HasProjectKeywordTable[text]

\* the lines "i+1. path" of the candidate menu
MenuLines(paths) == [i \in 1..Len(paths) |-> IntStr(i) \o ". " \o paths[i]]

\* the question that enumerates the candidates
AmbiguousQuestion(paths) ==
    "QUESTION: I found multiple directories with that name. Which one did you mean?\n"
    \o Join(MenuLines(paths), "\n") \o "\nPlease enter the number:"

InvalidDirQuestion(project_path) ==
    "QUESTION: The path '" \o project_path
    \o "' doesn't exist or is not a directory. Please provide a valid path."

NoPathQuestion == "QUESTION: Please provide the path to the project you want me to analyze."

\* the state a call of analyze leaves, and what it returned (resp = << >>: it raised)
Leaves(resp, cpp, amb, waiting, orig, pm, cs, dec, rep) ==
    /\ response' = resp
    /\ current_project_path' = cpp
    /\ ambiguous_paths' = amb
    /\ waiting_for_path_selection' = waiting
    /\ original_request' = orig
    /\ project_manager' = pm
    /\ calls' = cs
    /\ decision' = dec
    /\ report' = rep
    /\ scan_results' = << >>
    /\ language_specific_results' = << >>

\* the same for a turn that ran run_scan: scanned is what it returned (<< >>:
\* it raised) and specific the language_specific_results (<< >>: not reached)
LeavesScanned(resp, cpp, amb, waiting, orig, pm, cs, dec, rep, scanned, specific) ==
    /\ response' = resp
    /\ current_project_path' = cpp
    /\ ambiguous_paths' = amb
    /\ waiting_for_path_selection' = waiting
    /\ original_request' = orig
    /\ project_manager' = pm
    /\ calls' = cs
    /\ decision' = dec
    /\ report' = rep
    /\ scan_results' = scanned
    /\ language_specific_results' = specific

\* the project-analysis branch on a validated directory: scan, audit, assessment
\* call, extraction, fix synthesis, report
project_analysis(text, project_path, amb, waiting) ==
    \E scanned \in ScanOutcomes, audit_raises \in AuditRaises, reply \in AssessOutcomes :
        IF scanned = << >>
        THEN LeavesScanned(<< >>, <<project_path>>, amb, waiting, text, <<project_path>>,
                           <<"run_scan">>, "", << >>, << >>, << >>)
        ELSE IF audit_raises
        THEN LeavesScanned(<< >>, <<project_path>>, amb, waiting, text, <<project_path>>,
                           <<"run_scan", "run_audit">>, "", << >>, scanned, << >>)
        ELSE LET specific == <<LanguageSpecificResults(scanned[1])>>
             IN  IF reply = << >>
                 THEN LeavesScanned(<< >>, <<project_path>>, amb, waiting, text, <<project_path>>,
                                    <<"run_scan", "run_audit", "assessment">>, "", << >>,
                                    scanned, specific)
                 ELSE LET r == ExtractReportTable[reply[1]]
                      IN  \E fix_reply \in (IF FixCodeCalls(r.recommendations)
                                            THEN FixOutcomes ELSE {<< >>}) :
                              LET fix_code == generate_fix_code(r.recommendations, fix_reply)
                              IN  LeavesScanned(
                                      <<ProjectResponse(r, fix_code)>>, <<project_path>>, amb,
                                      waiting, text, <<project_path>>,
                                      <<"run_scan", "run_audit", "assessment">>
                                      \o (IF FixCodeCalls(r.recommendations)
                                          THEN <<"fix_code">> ELSE << >>),
                                      Strip(reply[1]), <<[fields |-> r, fix_code |-> fix_code]>>,
                                      scanned, specific)

\* the coding branch with decision.startswith("CODE_GENERATION_APPROVED") in
\* place of the comparison with ==
CodingRequestApprovesPrefix(text, cpp, amb, waiting) ==
    \E reply \in ClassifyOutcomes :
        IF reply = << >>
        THEN Leaves(<< >>, cpp, amb, waiting, text, project_manager, <<"classify">>, "", << >>)
        ELSE IF ~StartsWith(Strip(reply[1]), "CODE_GENERATION_APPROVED")
        THEN Leaves(<<"QUESTION: " \o Strip(reply[1])>>, cpp, amb, waiting, text, project_manager,
                    <<"classify">>, Strip(reply[1]), << >>)
        ELSE \E optimized \in OptimizeOutcomes :
                 IF optimized = << >>
                 THEN Leaves(<< >>, cpp, amb, waiting, text, project_manager,
                             <<"classify", "optimize">>, Strip(reply[1]), << >>)
                 ELSE \E generated \in GenerateOutcomes :
                          Leaves(generated, cpp, amb, waiting, text, project_manager,
                                 <<"classify", "optimize", "generate_code">>, Strip(reply[1]), << >>)

\* the coding branch: classification, then prompt optimisation and code generation
coding_request(text, cpp, amb, waiting) ==
    \E reply \in ClassifyOutcomes :
        IF reply = << >>
        THEN Leaves(<< >>, cpp, amb, waiting, text, project_manager, <<"classify">>, "", << >>)
        ELSE IF Strip(reply[1]) # "CODE_GENERATION_APPROVED"
        THEN Leaves(<<"QUESTION: " \o Strip(reply[1])>>, cpp, amb, waiting, text, project_manager,
                    <<"classify">>, Strip(reply[1]), << >>)
        ELSE \E optimized \in OptimizeOutcomes :
                 IF optimized = << >>
                 THEN Leaves(<< >>, cpp, amb, waiting, text, project_manager,
                             <<"classify", "optimize">>, Strip(reply[1]), << >>)
                 ELSE \E generated \in GenerateOutcomes :
                          Leaves(generated, cpp, amb, waiting, text, project_manager,
                                 <<"classify", "optimize", "generate_code">>, Strip(reply[1]), << >>)

\* analyze_request with self.current_project_path = project_path moved in
\* front of the validation of the path
AnalyzeRequestAssignsFirst(text, cpp, amb, waiting) ==
    \E potential_list \in PotentialLists(text, dirs) :
        LET extracted    == extract_path(text, potential_list, amb)
            project_path == extracted.ret
        IN  IF project_path = <<"AMBIGUOUS">>
            THEN Leaves(<<AmbiguousQuestion(extracted.ambiguous_paths)>>, cpp,
                        extracted.ambiguous_paths, TRUE, text, project_manager,
                        << >>, "", << >>)
            ELSE IF is_project_request(text) \/ Truthy(project_path)
            THEN IF Truthy(project_path)
                 THEN IF ~IsDirTable[dirs][project_path[1]]
                      THEN Leaves(<<InvalidDirQuestion(project_path[1])>>, project_path,
                                  extracted.ambiguous_paths, waiting, text, project_manager,
                                  << >>, "", << >>)
                      ELSE project_analysis(text, project_path[1],
                                            extracted.ambiguous_paths, waiting)
                 ELSE Leaves(<<NoPathQuestion>>, cpp, extracted.ambiguous_paths, waiting, text,
                             project_manager, << >>, "", << >>)
            ELSE coding_request(text, cpp, extracted.ambiguous_paths, waiting)

\* analyze(text) from "Store the original request" on, the fields being cpp
\* (current_project_path), amb (ambiguous_paths) and waiting at that point
analyze_request(text, cpp, amb, waiting) ==
    \E potential_list \in PotentialLists(text, dirs) :
        LET extracted    == extract_path(text, potential_list, amb)
            project_path == extracted.ret
        IN  IF project_path = <<"AMBIGUOUS">>
            THEN Leaves(<<AmbiguousQuestion(extracted.ambiguous_paths)>>, cpp,
                        extracted.ambiguous_paths, TRUE, text, project_manager,
                        << >>, "", << >>)
            ELSE IF is_project_request(text) \/ Truthy(project_path)
            THEN IF Truthy(project_path)
                 THEN IF ~IsDirTable[dirs][project_path[1]]
                      THEN Leaves(<<InvalidDirQuestion(project_path[1])>>, cpp,
                                  extracted.ambiguous_paths, waiting, text, project_manager,
                                  << >>, "", << >>)
                      ELSE project_analysis(text, project_path[1],
                                            extracted.ambiguous_paths, waiting)
                 ELSE Leaves(<<NoPathQuestion>>, cpp, extracted.ambiguous_paths, waiting, text,
                             project_manager, << >>, "", << >>)
            ELSE coding_request(text, cpp, extracted.ambiguous_paths, waiting)

\* analyze(text)
analyze(text) ==
    /\ user_input' = text
    /\ IF waiting_for_path_selection
       THEN LET h == handle_path_selection(text, ambiguous_paths,
                                           waiting_for_path_selection, dirs)
            IN  /\ path_result' = <<h.ret>>
                /\ IF StartsWith(h.ret, "QUESTION:")
                   THEN Leaves(<<h.ret>>, current_project_path, h.ambiguous_paths,
                               h.waiting_for_path_selection, original_request,
                               project_manager, << >>, "", << >>)
                   ELSE analyze_request(original_request, <<h.ret>>, h.ambiguous_paths,
                                        h.waiting_for_path_selection)
       ELSE /\ path_result' = << >>
            /\ analyze_request(text, current_project_path, ambiguous_paths,
                               waiting_for_path_selection)

(***************************************************************************)
(* Spec: any sequence of calls of analyze, on a filesystem that may change *)
(***************************************************************************)

Init ==
    /\ dirs = FixedDirs \cup MutableDirs
    /\ current_project_path = << >>
    /\ ambiguous_paths = << >>
    /\ waiting_for_path_selection = FALSE
    /\ original_request = ""
    /\ project_manager = << >>
    /\ user_input = ""
    /\ path_result = << >>
    /\ response = << >>
    /\ calls = << >>
    /\ decision = ""
    /\ report = << >>
    /\ scan_results = << >>
    /\ language_specific_results = << >>
    /\ pc = "idle"
    /\ user_request = ""
    /\ user_answer = ""
    /\ answers = 0
    /\ returned = << >>
    /\ scan_call = << >>
    /\ scan_return = << >>
    /\ extract_call = << >>
    /\ dedup_call = << >>
    /\ fix_call = << >>

\* a caller calls analyze with some text
Call ==
    /\ \E text \in Utterances : analyze(text)
    /\ UNCHANGED <<dirs, unit_vars, augment_vars>>

\* a directory is created or removed
FsChange ==
    /\ \E d \in MutableDirs : dirs' = (dirs \ {d}) \cup ({d} \ dirs)
    /\ UNCHANGED <<unit_vars, reasoner_vars, turn_vars, augment_vars>>

Next == Call \/ FsChange

Spec == Init /\ [][Next]_vars

(***************************************************************************)
(* SpecStatic: any sequence of calls of analyze on a filesystem that stays *)
(* as it is                                                                *)
(***************************************************************************)

InitStatic ==
    /\ dirs \in FsStates
    /\ current_project_path = << >>
    /\ ambiguous_paths = << >>
    /\ waiting_for_path_selection = FALSE
    /\ original_request = ""
    /\ project_manager = << >>
    /\ user_input = ""
    /\ path_result = << >>
    /\ response = << >>
    /\ calls = << >>
    /\ decision = ""
    /\ report = << >>
    /\ scan_results = << >>
    /\ language_specific_results = << >>
    /\ pc = "idle"
    /\ user_request = ""
    /\ user_answer = ""
    /\ answers = 0
    /\ returned = << >>
    /\ scan_call = << >>
    /\ scan_return = << >>
    /\ extract_call = << >>
    /\ dedup_call = << >>
    /\ fix_call = << >>

NextStatic == Call

SpecStatic == InitStatic /\ [][NextStatic]_vars

(***************************************************************************)
(* SpecAugment: Augment.send_to_reasoner drives analyze                    *)
(***************************************************************************)

\* "QUESTION:" in response, in place of response.startswith("QUESTION:")
IsQuestionAnywhere(resp) == Contains(resp, "QUESTION:")

\* response.startswith("QUESTION:")
IsQuestion(resp) == StartsWith(resp, "QUESTION:")

\* initial_request = agent.get_user_input(); send_to_reasoner(initial_request)
Start ==
    /\ pc = "idle"
    /\ \E request \in Requests : user_request' = request
    /\ pc' = "call"
    /\ UNCHANGED <<dirs, unit_vars, reasoner_vars, turn_vars, user_answer, answers, returned>>

\* one pass of the while loop up to the branch on the response
Turn ==
    /\ pc = "call"
    /\ analyze(user_request)
    /\ IF response' = << >>
       THEN pc' = "raised" /\ returned' = returned
       ELSE IF IsQuestion(response'[1])
       THEN pc' = "ask" /\ returned' = returned
       ELSE pc' = "done" /\ returned' = response'
    /\ UNCHANGED <<dirs, unit_vars, user_request, user_answer, answers>>

\* the answer taking the place of the request instead of being appended to it
ReplyReplacesRequest ==
    /\ pc = "ask"
    /\ answers < MaxAnswers
    /\ \E answer \in Answers :
           /\ user_answer' = answer
           /\ user_request' = answer
    /\ answers' = answers + 1
    /\ pc' = "call"
    /\ UNCHANGED <<dirs, unit_vars, reasoner_vars, turn_vars, returned>>

\* the user answers the question and the answer is appended to the request
Reply ==
    /\ pc = "ask"
    /\ answers < MaxAnswers
    /\ \E answer \in Answers :
           /\ user_answer' = answer
           /\ user_request' = user_request \o " " \o answer
    /\ answers' = answers + 1
    /\ pc' = "call"
    /\ UNCHANGED <<dirs, unit_vars, reasoner_vars, turn_vars, returned>>

NextAugment == Start \/ Turn \/ Reply

SpecAugment == Init /\ [][NextAugment]_vars

(***************************************************************************)
(* SpecExtract: the report extraction applied to replies of every shape    *)
(***************************************************************************)

\* the pieces a reply of the reasoning service is made of
Segments ==
    {"ASSESSMENT: ok\nfine\n", "RISK_LEVEL: Low\n", "RECOMMENDATIONS: fix\n",
     "QUESTIONS: null\n", "more\n"}

\* how many pieces a reply has at most
MaxSegments == 4

\* the concatenation of a sequence of strings
RECURSIVE Concat(_)
Concat(parts) == IF Len(parts) = 0 THEN "" ELSE Head(parts) \o Concat(Tail(parts))

\* the replies, stripped as analyze strips them
Decisions ==
    {Strip(Concat(parts)) : parts \in UNION {[1..n -> Segments] : n \in 0..MaxSegments}}

InitExtract ==
    /\ dirs = FixedDirs \cup MutableDirs
    /\ current_project_path = << >>
    /\ ambiguous_paths = << >>
    /\ waiting_for_path_selection = FALSE
    /\ original_request = ""
    /\ project_manager = << >>
    /\ user_input = ""
    /\ path_result = << >>
    /\ response = << >>
    /\ calls = << >>
    /\ decision \in Decisions
    /\ report = << >>
    /\ scan_results = << >>
    /\ language_specific_results = << >>
    /\ pc = "idle"
    /\ user_request = ""
    /\ user_answer = ""
    /\ answers = 0
    /\ returned = << >>
    /\ scan_call = << >>
    /\ scan_return = << >>
    /\ extract_call = << >>
    /\ dedup_call = << >>
    /\ fix_call = << >>

\* the four searches and the four defaults
Extract ==
    /\ report = << >>
    /\ report' = <<[fields |-> ExtractReport(decision), fix_code |-> << >>]>>
    /\ UNCHANGED <<dirs, unit_vars, reasoner_vars, user_input, path_result, response, calls, decision,
                   scan_results, language_specific_results, augment_vars>>

NextExtract == Extract

SpecExtract == InitExtract /\ [][NextExtract]_vars

(***************************************************************************)
(* SpecScan: one call of run_scan or run_audit on a new ProjectManager,    *)
(* for every project, every behaviour of the tools and every probe fault   *)
(***************************************************************************)

RunScan ==
    /\ scan_call = << >>
    /\ \E files \in Projects, runs \in ToolRunSeqs, raised \in ProbeFaults :
           /\ scan_call' = <<[op |-> "run_scan", files |-> files, runs |-> runs,
                              raised |-> raised, invoked |-> InvokedFrom(runs, 1)]>>
           /\ scan_return' = run_scan(files, runs, raised)
    /\ UNCHANGED <<dirs, reasoner_vars, turn_vars, augment_vars, extract_call, dedup_call,
                   fix_call>>

RunAudit ==
    /\ scan_call = << >>
    /\ \E files \in Projects, runs \in ToolRunSeqs :
           /\ scan_call' = <<[op |-> "run_audit", files |-> files, runs |-> runs,
                              raised |-> [p \in WalkProbes |-> ""],
                              invoked |-> InvokedFrom(runs, 1)]>>
           /\ scan_return' = run_audit(files, runs)
    /\ UNCHANGED <<dirs, reasoner_vars, turn_vars, augment_vars, extract_call, dedup_call,
                   fix_call>>

NextScan == RunScan \/ RunAudit

SpecScan == Init /\ [][NextScan]_vars

(***************************************************************************)
(* SpecPaths: one call of extract_path, for every text and filesystem      *)
(***************************************************************************)

InitPaths ==
    /\ dirs \in FsStates
    /\ current_project_path = << >>
    /\ ambiguous_paths = << >>
    /\ waiting_for_path_selection = FALSE
    /\ original_request = ""
    /\ project_manager = << >>
    /\ user_input = ""
    /\ path_result = << >>
    /\ response = << >>
    /\ calls = << >>
    /\ decision = ""
    /\ report = << >>
    /\ scan_results = << >>
    /\ language_specific_results = << >>
    /\ pc = "idle"
    /\ user_request = ""
    /\ user_answer = ""
    /\ answers = 0
    /\ returned = << >>
    /\ scan_call = << >>
    /\ scan_return = << >>
    /\ extract_call = << >>
    /\ dedup_call = << >>
    /\ fix_call = << >>

\* extract_path(text) on a new Reasoner
ExtractPath ==
    /\ extract_call = << >>
    /\ \E text \in Texts : \E potential_list \in PotentialLists(text, dirs) :
           LET r == extract_path(text, potential_list, ambiguous_paths)
           IN  /\ extract_call' = <<[text |-> text, ret |-> r.ret]>>
               /\ ambiguous_paths' = r.ambiguous_paths
    /\ UNCHANGED <<dirs, current_project_path, waiting_for_path_selection, original_request,
                   project_manager, turn_vars, augment_vars, scan_call, scan_return, dedup_call,
                   fix_call>>

NextPaths == ExtractPath

SpecPaths == InitPaths /\ [][NextPaths]_vars

(***************************************************************************)
(* SpecDedup: one call of deduplicate_recommendations, for every text of   *)
(* a few lines                                                             *)
(***************************************************************************)

\* the lines a recommendations text is made of
DedupLines == {"a", "b", " a", "", " "}

\* how many lines a text has at most
MaxLines == 3

\* the texts deduplicate_recommendations is called with
DedupTexts ==
    {Join(lines, "\n") : lines \in UNION {[1..n -> DedupLines] : n \in 0..MaxLines}}
    \cup {"a\nb\na\n\nb"}

InitDedup ==
    /\ dirs = FixedDirs \cup MutableDirs
    /\ current_project_path = << >>
    /\ ambiguous_paths = << >>
    /\ waiting_for_path_selection = FALSE
    /\ original_request = ""
    /\ project_manager = << >>
    /\ user_input = ""
    /\ path_result = << >>
    /\ response = << >>
    /\ calls = << >>
    /\ decision = ""
    /\ report = << >>
    /\ scan_results = << >>
    /\ language_specific_results = << >>
    /\ pc = "idle"
    /\ user_request = ""
    /\ user_answer = ""
    /\ answers = 0
    /\ returned = << >>
    /\ scan_call = << >>
    /\ scan_return = << >>
    /\ extract_call = << >>
    /\ dedup_call = << >>
    /\ fix_call = << >>

\* deduplicate_recommendations(text)
Deduplicate ==
    /\ dedup_call = << >>
    /\ \E text \in DedupTexts :
           dedup_call' = <<[text |-> text, ret |-> deduplicate_recommendations(text)]>>
    /\ UNCHANGED <<dirs, reasoner_vars, turn_vars, augment_vars, scan_call, scan_return,
                   extract_call, fix_call>>

NextDedup == Deduplicate

SpecDedup == InitDedup /\ [][NextDedup]_vars

(***************************************************************************)
(* SpecFix: one call of generate_requirements_fix, for every manifest of   *)
(* a few lines                                                             *)
(***************************************************************************)

\* the lines a requirements.txt is made of
FixLines ==
    {"requests==2.0", "flask==1.0 # web", "numpy>=1.0", " pytest==7.0", "# pinned", " # c", "", " "}

\* how many lines a manifest has at most
MaxFixLines == 3

\* the contents generate_requirements_fix is called with
FixContents ==
    {Join(lines, "\n") : lines \in UNION {[1..n -> FixLines] : n \in 0..MaxFixLines}}

InitFix ==
    /\ dirs = FixedDirs \cup MutableDirs
    /\ current_project_path = << >>
    /\ ambiguous_paths = << >>
    /\ waiting_for_path_selection = FALSE
    /\ original_request = ""
    /\ project_manager = << >>
    /\ user_input = ""
    /\ path_result = << >>
    /\ response = << >>
    /\ calls = << >>
    /\ decision = ""
    /\ report = << >>
    /\ scan_results = << >>
    /\ language_specific_results = << >>
    /\ pc = "idle"
    /\ user_request = ""
    /\ user_answer = ""
    /\ answers = 0
    /\ returned = << >>
    /\ scan_call = << >>
    /\ scan_return = << >>
    /\ extract_call = << >>
    /\ dedup_call = << >>
    /\ fix_call = << >>

\* generate_requirements_fix(current_content)
Fix ==
    /\ fix_call = << >>
    /\ \E current_content \in FixContents :
           fix_call' = <<[content |-> current_content,
                          ret |-> generate_requirements_fix(current_content)]>>
    /\ UNCHANGED <<dirs, reasoner_vars, turn_vars, augment_vars, scan_call, scan_return,
                   extract_call, dedup_call>>

NextFix == Fix

SpecFix == InitFix /\ [][NextFix]_vars

(***************************************************************************)
(* Properties of the question/answer loop (SpecAugment)                    *)
(***************************************************************************)

\* C1: send_to_reasoner passes its request to analyze; after a response that
\* begins with "QUESTION:" it asks the user and calls analyze again with the
\* request extended by a space and the reply; it returns exactly when analyze
\* returns a response that does not begin with "QUESTION:", and what it
\* returns is that response, so a returned value never begins with "QUESTION:".
C1_LoopProtocol ==
    [][/\ (pc = "call" /\ pc' # "call") =>
              /\ user_input' = user_request
              /\ user_request' = user_request
              /\ (pc' = "ask") <=> (response' # << >> /\ StartsWith(response'[1], "QUESTION:"))
              /\ (pc' = "done") <=> (response' # << >> /\ ~StartsWith(response'[1], "QUESTION:"))
              /\ pc' = "done" => returned' = response'
       /\ pc = "ask" =>
              /\ pc' = "call"
              /\ user_request' = user_request \o " " \o user_answer'
       /\ returned' # returned => (pc = "call" /\ pc' = "done")
       /\ returned' # << >> => ~StartsWith(returned'[1], "QUESTION:")]_vars

\* C1's case: the loop asked, took an answer, called again and returned
C1_Witness ==
    /\ pc = "done"
    /\ answers >= 1
    /\ returned = response
    /\ user_input = user_request

\* C5: once the controller has emitted the candidate menu, a reply of the
\* user that is a valid 1-based index into the candidates is what the next
\* call of analyze resolves to that candidate, and the controller stops
\* waiting for a selection.
C5_ReplyIsSelection ==
    [][(/\ pc = "call"
        /\ pc' # "call"
        /\ waiting_for_path_selection
        /\ response = <<AmbiguousQuestion(ambiguous_paths)>>
        /\ ParseInt(user_answer) # << >>
        /\ ParseInt(user_answer)[1] \in 1..Len(ambiguous_paths))
       => (/\ path_result' = <<ambiguous_paths[ParseInt(user_answer)[1]]>>
           /\ ~waiting_for_path_selection')]_vars

\* C15: within one cycle of send_to_reasoner the request passed to analyze
\* only grows: after a question, the next request passed to analyze is the
\* previous one followed by one space and the user's answer, so the earlier
\* request is a prefix of the later one and no answer is dropped.
C15_RequestGrows ==
    [][/\ pc = "ask" =>
              /\ user_request' = user_request \o " " \o user_answer'
              /\ StartsWith(user_request', user_request)
       /\ (pc = "call" /\ pc' # "call" /\ answers >= 1) =>
              /\ user_input' = user_input \o " " \o user_answer
              /\ StartsWith(user_input', user_input)
       /\ (pc = "call" /\ pc' # "call") => user_request' = user_request]_vars

\* C15's case: analyze has been called with a request that carries two answers
C15_Witness ==
    /\ answers = 2
    /\ pc \in {"ask", "done"}
    /\ user_input = user_request
    /\ Len(user_answer) > 0

\* C27: when the classification call returns CODE_GENERATION_APPROVED and the
\* turn returns, send_to_reasoner ends its loop on that turn and returns the
\* response as the final result; it never handles it as a question, whatever
\* text the code generator produced.
C27_ApprovedTurnIsFinal ==
    [][(/\ pc = "call"
        /\ pc' # "call"
        /\ decision' = "CODE_GENERATION_APPROVED"
        /\ response' # << >>)
       => (pc' = "done" /\ returned' = response')]_vars

\* C16: within one cycle (from the first utterance until a response that is
\* no question) original_request stays the first utterance of the cycle: a
\* call of analyze that follows a question of the same cycle leaves it as the
\* first call set it.
C16_OriginalRequestKept ==
    [][(pc = "call" /\ pc' # "call" /\ answers >= 1)
       => original_request' = original_request]_vars

(***************************************************************************)
(* Properties of analyze and the path selection (Spec)                     *)
(***************************************************************************)

\* a step of Spec that is a call of analyze (FsChange always changes dirs)
IsCallStep == dirs' = dirs

\* whether text is a valid selection from paths in the filesystem ds
ValidSelection(text, paths, ds) ==
    IF ParseInt(text) # << >>
    THEN ParseInt(text)[1] \in 1..Len(paths)
    ELSE IsDir(text, ds)

\* the elements of a sequence
Range(seq) == {seq[i] : i \in 1..Len(seq)}

\* C2: between calls of analyze, ambiguous_paths is non-empty if and only if
\* waiting_for_path_selection is true.
C2_MenuIffWaiting == (ambiguous_paths # << >>) <=> waiting_for_path_selection

\* C2's case: a selection was accepted and the turn ended with the menu
\* cleared and the controller no longer waiting
C2_Witness ==
    /\ path_result # << >>
    /\ ~StartsWith(path_result[1], "QUESTION:")
    /\ ambiguous_paths = << >>
    /\ ~waiting_for_path_selection

\* C3: when the controller is waiting for a selection from a menu that is
\* still what the filesystem gives for the stored request, and analyze gets a
\* valid selection, the turn ends with the menu cleared, the controller not
\* waiting, and current_project_path the selected path.
C3_SelectionResolves ==
    [][(/\ IsCallStep
        /\ waiting_for_path_selection
        /\ PatternLoop(original_request, 1) = << >>
        /\ Range(ambiguous_paths) = PotentialPaths(original_request, dirs)
        /\ ValidSelection(user_input', ambiguous_paths, dirs))
       => (/\ ambiguous_paths' = << >>
           /\ ~waiting_for_path_selection'
           /\ current_project_path' = path_result')]_vars

\* C4: a project request whose text yields no path, made while
\* current_project_path is an existing directory, is answered by scanning and
\* auditing that directory, not by asking the user for a path.
C4_ActivePathFallback ==
    [][(/\ IsCallStep
        /\ ~waiting_for_path_selection
        /\ HasProjectKeyword(user_input')
        /\ PatternLoop(user_input', 1) = << >>
        /\ PotentialPaths(user_input', dirs) = {}
        /\ current_project_path # << >>
        /\ IsDir(current_project_path[1], dirs))
       => (/\ Len(calls') >= 2
           /\ calls'[1] = "run_scan"
           /\ calls'[2] = "run_audit"
           /\ response' # <<NoPathQuestion>>
           /\ project_manager' = current_project_path)]_vars

\* C6: handle_path_selection with an input that parses as the integer k and n
\* candidates returns the k-th candidate (1-based) when 1 <= k <= n; for every
\* other integer it returns the "QUESTION:"-prefixed invalid-selection
\* response and selects nothing.
C6_OneBasedIndex ==
    [][(/\ IsCallStep
        /\ waiting_for_path_selection
        /\ ParseInt(user_input') # << >>)
       => LET k == ParseInt(user_input')[1]
          IN  IF 1 <= k /\ k <= Len(ambiguous_paths)
              THEN path_result' = <<ambiguous_paths[k]>>
              ELSE /\ path_result' = <<InvalidSelectionQuestion>>
                   /\ StartsWith(path_result'[1], "QUESTION:")
                   /\ path_result'[1] \notin Range(ambiguous_paths)
                   /\ ambiguous_paths' = ambiguous_paths
                   /\ waiting_for_path_selection'
                   /\ current_project_path' = current_project_path]_vars

\* C6's case: an integer was typed at the menu and a candidate came back
C6_Witness ==
    /\ path_result # << >>
    /\ ParseInt(user_input) # << >>
    /\ ParseInt(user_input)[1] >= 2
    /\ ~StartsWith(path_result[1], "QUESTION:")

\* C7: an invalid selection while waiting (an integer out of range, or text
\* that is neither an integer nor an existing directory) returns a
\* "QUESTION:"-prefixed response, leaves ambiguous_paths,
\* waiting_for_path_selection, original_request and current_project_path as
\* they were, and makes no scan and no completion-service call.
C7_InvalidSelectionFrame ==
    [][(/\ IsCallStep
        /\ waiting_for_path_selection
        /\ ~ValidSelection(user_input', ambiguous_paths, dirs))
       => (/\ response' # << >>
           /\ StartsWith(response'[1], "QUESTION:")
           /\ ambiguous_paths' = ambiguous_paths
           /\ waiting_for_path_selection'
           /\ original_request' = original_request
           /\ current_project_path' = current_project_path
           /\ calls' = << >>)]_vars

\* C7's case: an invalid selection was made at the menu and the menu is kept
C7_Witness ==
    /\ waiting_for_path_selection
    /\ ambiguous_paths # << >>
    /\ path_result # << >>
    /\ path_result[1] \in {InvalidSelectionQuestion, InvalidPathQuestion}
    /\ response = path_result
    /\ calls = << >>

\* C10: the risk level of the report of a project-analysis turn is one of
\* High, Medium, Low and Unknown, whatever the reasoning service replied.
C10_RiskVocabulary ==
    report # << >> => report[1].fields.risk_level \in {"High", "Medium", "Low", "Unknown"}

\* C17: after a turn in which analyze returned a response that does not
\* begin with "QUESTION:", ambiguous_paths is empty and
\* waiting_for_path_selection is false.
C17_TerminalClearsMenu ==
    (response # << >> /\ ~StartsWith(response[1], "QUESTION:"))
    => (ambiguous_paths = << >> /\ ~waiting_for_path_selection)

\* C17's case: a turn that began in the waiting state ended with a final report
C17_Witness ==
    /\ path_result # << >>
    /\ response # << >>
    /\ ~StartsWith(response[1], "QUESTION:")
    /\ report # << >>

(***************************************************************************)
(* Properties of the report extraction (SpecExtract)                       *)
(***************************************************************************)

\* label occurs in s at index i
OccursAt(s, label, i) ==
    /\ i >= 1
    /\ i + Len(label) - 1 <= Len(s)
    /\ SubSeq(s, i, i + Len(label) - 1) = label

\* the indices >= from where label occurs in s
Occurrences(s, label, from) == {i \in from..Len(s) : OccursAt(s, label, i)}

\* the least element of a non-empty set of integers
Least(S) == CHOOSE i \in S : \A j \in S : i <= j

\* the greatest element of a non-empty set of integers
Greatest(S) == CHOOSE i \in S : \A j \in S : j <= i

\* s without its leading and trailing whitespace
Trimmed(s) ==
    LET kept == {i \in 1..Len(s) : SubSeq(s, i, i) \notin {" ", "\n", "\t", "\r"}}
    IN  IF kept = {} THEN "" ELSE SubSeq(s, Least(kept), Greatest(kept))

\* the rule for one field: the default when the label does not occur, else
\* the trimmed text from the end of the label's first occurrence up to the
\* first later occurrence of one of the labels in next, or the end of the text
FieldRule(s, label, next, default) ==
    IF Occurrences(s, label, 1) = {} THEN default
    ELSE LET a     == Least(Occurrences(s, label, 1)) + Len(label)
             stops == UNION {Occurrences(s, l, a) : l \in next}
             e     == IF stops = {} THEN Len(s) + 1 ELSE Least(stops)
         IN  Trimmed(SubSeq(s, a, e - 1))

\* the rule for the four fields, each bounded by the label that follows its
\* own in the order ASSESSMENT:, RISK_LEVEL:, RECOMMENDATIONS:, QUESTIONS:
ReportRule(s) ==
    [assessment      |-> FieldRule(s, "ASSESSMENT:", {"RISK_LEVEL:"}, "No assessment provided"),
     risk_level      |-> FieldRule(s, "RISK_LEVEL:", {"RECOMMENDATIONS:"}, "Unknown"),
     recommendations |-> FieldRule(s, "RECOMMENDATIONS:", {"QUESTIONS:"}, "No recommendations"),
     questions       |-> FieldRule(s, "QUESTIONS:", {}, "null")]

\* C8: each extracted field is its default when its label does not occur in
\* the reply, and otherwise the trimmed text after the label up to the label
\* expected next in the order ASSESSMENT:, RISK_LEVEL:, RECOMMENDATIONS:,
\* QUESTIONS:, or the end of the text; a reply with the four labels once in
\* order yields the four bodies, multi-line bodies included.
C8_ExtractionRule ==
    report # << >> =>
        /\ report[1].fields = ReportRule(decision)
        /\ decision = "ASSESSMENT: ok\nfine\nRISK_LEVEL: Low\nRECOMMENDATIONS: fix\nQUESTIONS: null"
               => report[1].fields = [assessment      |-> "ok\nfine",
                                      risk_level      |-> "Low",
                                      recommendations |-> "fix",
                                      questions       |-> "null"]

\* C8's case: a reply with the four labels once in order, the first body of
\* two lines, has been extracted
C8_Witness ==
    /\ decision = "ASSESSMENT: ok\nfine\nRISK_LEVEL: Low\nRECOMMENDATIONS: fix\nQUESTIONS: null"
    /\ report # << >>
    /\ report[1].fields.assessment = "ok\nfine"

\* the reply s with a RISK_LEVEL section put in front of its RECOMMENDATIONS: label
WithRiskSection(s) ==
    LET k == Least(Occurrences(s, "RECOMMENDATIONS:", 1))
    IN  SubSeq(s, 1, k - 1) \o "RISK_LEVEL: Low\n" \o SubSeq(s, k, Len(s))

\* the fields of a report other than the risk level
OtherFields(r) == <<r.assessment, r.recommendations, r.questions>>

\* C9: for a reply with the ASSESSMENT:, RECOMMENDATIONS: and QUESTIONS:
\* labels (once each, in that order) and no RISK_LEVEL: label, the risk level
\* is "Unknown" and the other three fields are what they would be were the
\* RISK_LEVEL section present.
C9_MissingRiskLevel ==
    (/\ report # << >>
     /\ Occurrences(decision, "RISK_LEVEL:", 1) = {}
     /\ Cardinality(Occurrences(decision, "ASSESSMENT:", 1)) = 1
     /\ Cardinality(Occurrences(decision, "RECOMMENDATIONS:", 1)) = 1
     /\ Cardinality(Occurrences(decision, "QUESTIONS:", 1)) = 1
     /\ Least(Occurrences(decision, "ASSESSMENT:", 1))
            < Least(Occurrences(decision, "RECOMMENDATIONS:", 1))
     /\ Least(Occurrences(decision, "RECOMMENDATIONS:", 1))
            < Least(Occurrences(decision, "QUESTIONS:", 1)))
    => (/\ report[1].fields.risk_level = "Unknown"
        /\ OtherFields(report[1].fields)
               = OtherFields(ExtractReport(WithRiskSection(decision))))

(***************************************************************************)
(* Properties of the project-analysis turn (Spec)                          *)
(***************************************************************************)

ReportText(r) ==
    "SECURITY ASSESSMENT REPORT\n==========================\nRisk Level: " \o r.risk_level
    \o "\n\nAssessment:\n" \o r.assessment
    \o "\n\nRecommendations:\n" \o r.recommendations \o "\n"

\* C12: the response of a project-analysis turn on a validated directory
\* begins with "QUESTION:" if and only if the extracted questions field is not
\* "null", and in both cases it contains the formatted report with the risk
\* level, the assessment and the recommendations.
C12_QuestionPrefixIffQuestions ==
    (report # << >> /\ response # << >>) =>
        /\ StartsWith(response[1], "QUESTION:") <=> (report[1].fields.questions # "null")
        /\ Contains(response[1], ReportText(report[1].fields))

\* C12's case: a project-analysis turn whose reply carried a follow-up question
C12_Witness ==
    /\ report # << >>
    /\ response # << >>
    /\ report[1].fields.questions = "Which database?"
    /\ StartsWith(response[1], "QUESTION: Which database?")

\* C13: whatever the completion service does, every call of analyze returns
\* a string (a "QUESTION:"-prefixed question or a final report or answer) and
\* never raises.
C13_AnalyzeNeverRaises ==
    [][IsCallStep => response' # << >>]_vars

(***************************************************************************)
(* Properties of run_scan and run_audit (SpecScan)                         *)
(***************************************************************************)

\* the run of a tool whose executable is missing
MissingExecutable ==
    [exc |-> "[Errno 2] No such file or directory", returncode |-> 0, stdout |-> "", stderr |-> ""]

\* obj is a dict that carries an error message
IsErrorPayload(obj) == obj.type = "dict" /\ "error" \in DOMAIN obj.dict /\ obj.dict.error # ""

\* C14: whatever the tools and the probes do, run_scan and run_audit return
\* a bundle with every key present, no exception leaves them, a probe that
\* failed leaves an error payload in its slot, and when the semgrep
\* executable is missing the semgrep slot is {error, suggested_fix} and the
\* other slots are what the probes give.
C14_ScanFaultIsolation ==
    scan_call # << >> =>
        /\ scan_return # << >>
        /\ scan_call[1].op = "run_scan" =>
               /\ DOMAIN scan_return[1] = {"languages", "structure", "file_contents",
                                           "semgrep_scan", "potential_issues",
                                           "detected_frameworks"}
               /\ scan_call[1].raised["languages"] # "" =>
                      IsErrorPayload(scan_return[1].languages)
               /\ scan_call[1].raised["structure"] # "" =>
                      IsErrorPayload(scan_return[1].structure)
               /\ (\A k \in 1..3 : scan_call[1].runs[k] = MissingExecutable) =>
                      /\ DOMAIN scan_return[1].semgrep_scan.dict = {"error", "suggested_fix"}
                      /\ scan_return[1].file_contents
                             = analyze_file_contents(scan_call[1].files)
                      /\ scan_return[1].languages
                             = detect_languages(scan_call[1].files, scan_call[1].raised["languages"])
        /\ scan_call[1].op = "run_audit" =>
               DOMAIN scan_return[1] = {"osv_scanner", "dependency_files", "manual_checks"}

(***************************************************************************)
(* Properties of analyze on an unchanging filesystem (SpecStatic)          *)
(***************************************************************************)

\* C18: on a filesystem that does not change, current_project_path is unset
\* or names an existing directory after every turn, and a turn that ran
\* run_scan or run_audit ran it on a ProjectManager made for a path that is
\* an existing directory.
C18_ActivePathExists ==
    /\ current_project_path # << >> => IsDir(current_project_path[1], dirs)
    /\ (\E k \in 1..Len(calls) : calls[k] \in {"run_scan", "run_audit"}) =>
           /\ project_manager # << >>
           /\ IsDir(project_manager[1], dirs)
           /\ project_manager = current_project_path

\* C18's case: current_project_path was set from a selection at the menu
C18_Witness ==
    /\ path_result # << >>
    /\ current_project_path = path_result
    /\ IsDir(current_project_path[1], dirs)

(***************************************************************************)
(* Properties of extract_path (SpecPaths)                                  *)
(***************************************************************************)

\* the whitespace-separated tokens of text that name an existing directory
DirectoryTokens(text, ds) ==
    {k \in 1..Len(Split(text)) : IsDir(Split(text)[k], ds)}

\* those of them that are outside the stoplist
CandidateTokens(text, ds) ==
    {k \in DirectoryTokens(text, ds) : Lower(Split(text)[k]) \notin SkipWords}

\* C19: for a text in which no whitespace-separated token names an existing
\* directory, extract_path returns None.
C19_NoDirectoryNoPath ==
    (extract_call # << >> /\ DirectoryTokens(extract_call[1].text, dirs) = {})
    => extract_call[1].ret = << >>

\* C20: for a text in which exactly one token outside the stoplist names an
\* existing directory, extract_path returns the absolute, normalised path of
\* that directory, as a single path.
C20_OneDirectoryItsPath ==
    (extract_call # << >> /\ Cardinality(CandidateTokens(extract_call[1].text, dirs)) = 1)
    => extract_call[1].ret
           = <<AbsPath(Split(extract_call[1].text)[CHOOSE k \in
                   CandidateTokens(extract_call[1].text, dirs) : TRUE])>>

\* the distinct directories named by the tokens outside the stoplist
CandidateDirectories(text, ds) ==
    {AbsPath(Split(text)[k]) : k \in CandidateTokens(text, ds)}

\* C21: for a text whose tokens outside the stoplist name two or more
\* distinct existing directories, extract_path returns "AMBIGUOUS" and the
\* retained candidate list holds every distinct directory exactly once.
C21_ManyDirectoriesAmbiguous ==
    (extract_call # << >> /\ Cardinality(CandidateDirectories(extract_call[1].text, dirs)) >= 2)
    => /\ extract_call[1].ret = <<"AMBIGUOUS">>
       /\ Range(ambiguous_paths) = CandidateDirectories(extract_call[1].text, dirs)
       /\ Len(ambiguous_paths) = Cardinality(CandidateDirectories(extract_call[1].text, dirs))

(***************************************************************************)
(* Properties of deduplicate_recommendations (SpecDedup)                   *)
(***************************************************************************)

\* the lines of text
LinesOf(text) == SplitOn(text, "\n")

\* a line with nothing but whitespace in it
IsBlank(line) == \A i \in 1..Len(line) : SubSeq(line, i, i) \in {" ", "\t", "\r"}

\* the lines from k on that are not blank and repeat no earlier line
RECURSIVE FirstOccurrences(_, _)
FirstOccurrences(lines, k) ==
    IF k > Len(lines) THEN << >>
    ELSE (IF ~IsBlank(lines[k]) /\ \A j \in 1..(k - 1) : lines[j] # lines[k]
          THEN <<lines[k]>> ELSE << >>)
         \o FirstOccurrences(lines, k + 1)

\* C22: deduplicate_recommendations returns the non-blank lines of its input
\* with every later repeat of a line removed, first occurrences in their
\* original order ("a\nb\na\n\nb" gives "a\nb"), and applying it to its own
\* output returns that output unchanged.
C22_DeduplicateRule ==
    dedup_call # << >> =>
        /\ dedup_call[1].ret = Join(FirstOccurrences(LinesOf(dedup_call[1].text), 1), "\n")
        /\ dedup_call[1].text = "a\nb\na\n\nb" => dedup_call[1].ret = "a\nb"
        /\ deduplicate_recommendations(dedup_call[1].ret) = dedup_call[1].ret

(***************************************************************************)
(* Properties of the fallback chains (SpecScan)                            *)
(***************************************************************************)

\* what strategy k of the chain examined returned
StrategyResult(k) == RunStrategy(scan_call[1].runs[k], k = 1)

\* the result carries an error: it is a dict with the key "error"
CarriesError(obj) == obj.type = "dict" /\ "error" \in DOMAIN obj.dict

\* the strategies of the chain examined whose result carries no error
Succeeding == {k \in 1..3 : ~CarriesError(StrategyResult(k))}

\* what the chain examined returned (<< >>: it raised)
ChainReturn ==
    IF scan_return = << >> THEN << >>
    ELSE IF scan_call[1].op = "run_scan" THEN <<scan_return[1].semgrep_scan>>
    ELSE <<scan_return[1].osv_scanner>>

\* C23: a fallback chain invokes its strategies in the listed order, returns
\* the result of the first strategy whose result carries no error and invokes
\* no strategy after it, and when every strategy fails it returns a failure
\* with an error and a suggested_fix.
C23_FallbackOrder ==
    scan_call # << >> =>
        IF Succeeding # {}
        THEN /\ scan_call[1].invoked = [k \in 1..Least(Succeeding) |-> k]
             /\ ChainReturn = <<StrategyResult(Least(Succeeding))>>
        ELSE /\ scan_call[1].invoked = <<1, 2, 3>>
             /\ ChainReturn # << >>
             /\ ChainReturn[1].type = "dict"
             /\ DOMAIN ChainReturn[1].dict = {"error", "suggested_fix"}

\* the strategies of the chain examined that were invoked and whose
\* subprocess exited with a non-zero code
NonZeroExits ==
    {k \in Range(scan_call[1].invoked) :
        scan_call[1].runs[k].exc = "" /\ scan_call[1].runs[k].returncode # 0}

\* C24: a strategy whose subprocess exits with a non-zero code has failed,
\* whatever it wrote to stderr: its result is not what the chain returns, and
\* the chain goes on to the next strategy.
C24_NonZeroExitFails ==
    scan_call # << >> =>
        \A k \in NonZeroExits :
            /\ ChainReturn # <<StrategyResult(k)>>
            /\ k < 3 => (k + 1) \in Range(scan_call[1].invoked)

(***************************************************************************)
(* Properties of the calls a turn makes (Spec)                             *)
(***************************************************************************)

\* seq is an initial part of full
IsPrefix(seq, full) == Len(seq) <= Len(full) /\ seq = SubSeq(full, 1, Len(seq))

\* the turn issued the fix-synthesis call
FixCallIssued == \E k \in 1..Len(calls) : calls[k] = "fix_code"

\* the response carries the automated-fixes section
HasFixSection == Occurrences(response[1], "AUTOMATED FIXES:\n================\n", 1) # {}

\* C25: in a project-analysis turn on a validated directory the scan and the
\* audit run first, then one assessment call is issued, then at most one
\* fix-synthesis call, which is issued exactly when the extracted
\* recommendations are neither empty nor "No recommendations"; the report has
\* the automated-fixes section exactly when that call gave text other than
\* whitespace; a fix-synthesis call that fails still yields the report,
\* without the section (a turn ended by an exception of the scan, the audit
\* or the assessment call stops at that call).
C25_ProjectTurnCalls ==
    (calls # << >> /\ calls[1] = "run_scan") =>
        /\ IsPrefix(calls, <<"run_scan", "run_audit", "assessment", "fix_code">>)
        /\ response = << >> => (Len(calls) <= 3 /\ report = << >>)
        /\ response # << >> =>
               /\ Len(calls) >= 3
               /\ report # << >>
               /\ FixCallIssued <=> (/\ report[1].fields.recommendations # ""
                                     /\ report[1].fields.recommendations # "No recommendations")
               /\ HasFixSection <=> (/\ FixCallIssued
                                     /\ report[1].fix_code # << >>
                                     /\ report[1].fix_code[1] # "")
               /\ (FixCallIssued /\ report[1].fix_code = << >>) =>
                      /\ ~HasFixSection
                      /\ Occurrences(response[1], ReportText(report[1].fields), 1) # {}

\* C25's case: the fix-synthesis call was issued and failed, and the report
\* came back without the automated-fixes section
C25_Witness ==
    /\ calls = <<"run_scan", "run_audit", "assessment", "fix_code">>
    /\ report # << >>
    /\ report[1].fix_code = << >>
    /\ response # << >>
    /\ ~HasFixSection

\* what the code generator can return
GeneratedTexts == {o[1] : o \in GenerateOutcomes \ {<< >>}}

\* C26: a turn of the coding branch issues one classification call; when the
\* trimmed reply is exactly "CODE_GENERATION_APPROVED" it then issues one
\* prompt-optimisation call and one code-generation call, in that order, and
\* returns what the generator gave; for any other reply it issues no further
\* call and returns "QUESTION: " followed by the trimmed reply (a turn ended
\* by an exception of one of the calls stops at that call).
C26_CodingTurnCalls ==
    (calls # << >> /\ calls[1] = "classify") =>
        /\ IsPrefix(calls, <<"classify", "optimize", "generate_code">>)
        /\ response = << >> =>
               (Len(calls) > 1 => decision = "CODE_GENERATION_APPROVED")
        /\ response # << >> =>
               IF decision = "CODE_GENERATION_APPROVED"
               THEN /\ calls = <<"classify", "optimize", "generate_code">>
                    /\ response[1] \in GeneratedTexts
               ELSE /\ calls = <<"classify">>
                    /\ response[1] = "QUESTION: " \o decision

\* C26's case: the classification approved the request and the generator's
\* code came back
C26_Witness ==
    /\ calls = <<"classify", "optimize", "generate_code">>
    /\ decision = "CODE_GENERATION_APPROVED"
    /\ response = <<"def f(): pass">>

\* C28: in a turn that does not begin in the waiting state, an extraction
\* with two or more candidates yields the candidate question before anything
\* else; otherwise the project branch (a scan, or a question about the path)
\* is taken exactly when the lowercased input contains one of the keywords as
\* a substring or extract_path returned a path, and the coding branch (the
\* classification call) in every other case.
C28_BranchSelection ==
    [][(IsCallStep /\ ~waiting_for_path_selection)
       => LET text      == user_input'
              matched   == PatternLoopTable[text]
              potential == IF matched # << >> THEN {} ELSE PotentialPathsTable[dirs][text]
          IN  IF Cardinality(potential) >= 2
              THEN /\ response' = <<AmbiguousQuestion(ambiguous_paths')>>
                   /\ Range(ambiguous_paths') = potential
                   /\ waiting_for_path_selection'
                   /\ calls' = << >>
              ELSE IF HasProjectKeywordTable[text] \/ matched # << >> \/ potential # {}
              THEN \/ calls' # << >> /\ calls'[1] = "run_scan"
                   \/ /\ calls' = << >>
                      /\ response' # << >>
                      /\ \/ response' = <<NoPathQuestion>>
                         \/ matched # << >> /\ response' = <<InvalidDirQuestion(matched[1])>>
              ELSE calls' # << >> /\ calls'[1] = "classify"]_vars

\* C28's case: a text with no keyword in it named one directory and the
\* project branch was taken
C28_Witness ==
    /\ user_input = "app"
    /\ path_result = << >>
    /\ ~HasProjectKeyword(user_input)
    /\ calls # << >>
    /\ calls[1] = "run_scan"

\* the languages the scan of the last turn detected (none when detection failed)
DetectedLanguages ==
    IF "languages" \in DOMAIN scan_results[1].languages.dict
    THEN DOMAIN scan_results[1].languages.dict.languages
    ELSE {}

\* C29: in a project-analysis turn, for every language the scan detected that
\* has registered tools, the language-specific scans are run and the results
\* that go into the context have one entry for each of its tools.
C29_LanguageScansRun ==
    (scan_results # << >> /\ language_specific_results # << >>) =>
        \A language \in DetectedLanguages \cap DOMAIN security_tools :
            \A k \in 1..Len(security_tools[language]) :
                (language \o "_" \o security_tools[language][k])
                    \in DOMAIN language_specific_results[1]

\* what extract_path returns for text in the filesystem ds when it is one
\* path (<< >>: no path, or several candidates)
ExtractedPath(text, ds) ==
    IF PatternLoopTable[text] # << >> THEN PatternLoopTable[text]
    ELSE IF Cardinality(PotentialPathsTable[ds][text]) = 1
    THEN <<CHOOSE p \in PotentialPathsTable[ds][text] : TRUE>>
    ELSE << >>

\* extract_path finds several candidates for text
IsAmbiguous(text, ds) ==
    PatternLoopTable[text] = << >> /\ Cardinality(PotentialPathsTable[ds][text]) >= 2

\* C30: a turn runs the scan, the audit and the assessment only on a path
\* that is an existing directory; a project request whose extracted path is
\* no existing directory, or which yields no path, is answered by a
\* "QUESTION:"-prefixed request for a path, with no call made and
\* current_project_path, project_manager, ambiguous_paths and
\* waiting_for_path_selection left as they were, even when another token of
\* the text names a directory.
C30_NoScanWithoutDirectory ==
    [][IsCallStep =>
          /\ (calls' # << >> /\ calls'[1] = "run_scan") =>
                 /\ project_manager' # << >>
                 /\ IsDirTable[dirs][project_manager'[1]]
                 /\ ~waiting_for_path_selection =>
                        project_manager' = ExtractedPath(user_input', dirs)
          /\ (/\ ~waiting_for_path_selection
              /\ ~IsAmbiguous(user_input', dirs)
              /\ HasProjectKeywordTable[user_input'] \/ ExtractedPath(user_input', dirs) # << >>
              /\ \/ ExtractedPath(user_input', dirs) = << >>
                 \/ ~IsDirTable[dirs][ExtractedPath(user_input', dirs)[1]])
             => /\ calls' = << >>
                /\ response' # << >>
                /\ StartsWith(response'[1], "QUESTION:")
                /\ response' = IF ExtractedPath(user_input', dirs) = << >>
                               THEN <<NoPathQuestion>>
                               ELSE <<InvalidDirQuestion(ExtractedPath(user_input', dirs)[1])>>
                /\ UNCHANGED <<current_project_path, project_manager, ambiguous_paths,
                               waiting_for_path_selection>>]_vars

\* C30's case: the pattern gave a path that does not exist while another
\* token named a directory, and the turn asked for a valid path
C30_Witness ==
    /\ user_input = "scan app /tmp/nodir"
    /\ path_result = << >>
    /\ response = <<InvalidDirQuestion("/tmp/nodir")>>
    /\ calls = << >>
    /\ IsDir("app", dirs)

(***************************************************************************)
(* Properties of the keyword patterns of extract_path (SpecPaths)          *)
(***************************************************************************)

\* the keywords of the keyword patterns, in the order of path_patterns
PathKeywords == <<"project", "directory", "path">>

\* the positions of the tokens of text that are the keyword and have a token
\* after them
KeywordPositions(text, keyword) ==
    {k \in 1..(Len(Split(text)) - 1) : Split(text)[k] = keyword}

\* the keywords that occur in text followed by whitespace and a token
PhraseKeywords(text) ==
    {n \in 1..Len(PathKeywords) : KeywordPositions(text, PathKeywords[n]) # {}}

\* the token X of the first keyword phrase of text, in the order of the patterns
PhraseToken(text) ==
    LET keyword == PathKeywords[Least(PhraseKeywords(text))]
    IN  Split(text)[Least(KeywordPositions(text, keyword)) + 1]

\* C31: for a text with a keyword ("project", "directory" or "path") followed
\* by whitespace and a token X, and with no slash- or drive-letter-shaped
\* path in it, extract_path returns X, the match without its keyword, and
\* does not go on to the token scan.
C31_KeywordPhrase ==
    (/\ extract_call # << >>
     /\ PhraseKeywords(extract_call[1].text) # {}
     /\ ReSearch(extract_call[1].text, 1, 1) = << >>
     /\ ReSearch(extract_call[1].text, 2, 1) = << >>)
    => extract_call[1].ret = <<PhraseToken(extract_call[1].text)>>

(***************************************************************************)
(* Properties of generate_requirements_fix (SpecFix)                       *)
(***************************************************************************)

\* a comment line of a manifest
IsCommentLine(line) == StartsWith(line, "#")

\* the packages of the fixed mapping that line pins: line is <pkg>==<version>
PinnedPackages(line) ==
    {k \in 1..Len(version_updates) :
        LET prefix == version_updates[k].pkg \o "=="
        IN  /\ StartsWith(line, prefix)
            /\ Len(line) > Len(prefix)
            /\ \A i \in 1..Len(line) : SubSeq(line, i, i) \notin WhiteSpace}

\* the line the rewrite gives for one line of the manifest
RewrittenLine(line) ==
    IF IsBlank(line) \/ IsCommentLine(line) \/ PinnedPackages(line) = {} THEN line
    ELSE LET k == Least(PinnedPackages(line))
         IN  version_updates[k].pkg \o version_updates[k].new_version

\* C32: generate_requirements_fix rewrites line by line: the output has as
\* many lines as the input, comment lines and blank lines are kept, a line
\* <pkg>==<version> for a package of the fixed mapping becomes <pkg>
\* followed by the mapped constraint, every other line is left as it is,
\* character for character, and applying the function to its own output
\* changes nothing.
C32_LineByLineRewrite ==
    fix_call # << >> =>
        LET in_lines == LinesOf(fix_call[1].content)
            out_lines == LinesOf(fix_call[1].ret)
        IN  /\ Len(out_lines) = Len(in_lines)
            /\ \A i \in 1..Len(in_lines) : out_lines[i] = RewrittenLine(in_lines[i])
            /\ generate_requirements_fix(fix_call[1].ret) = fix_call[1].ret

====
